---- MODULE Spec2Model ----
(***************************************************************************)
(* A model of bincfg's CFG normalization / MemCFG compaction engine and of *)
(* the file-locked AtomicTokenDict shared between worker processes.        *)
(*                                                                         *)
(* Strings of the program are modelled as sequences of one-character       *)
(* strings, so that joining, splitting and regular-expression matching are *)
(* computed rather than tabulated.                                         *)
(***************************************************************************)
EXTENDS Integers, Sequences, FiniteSets, TLC

(***************************************************************************)
(* Bounds of the model                                                     *)
(***************************************************************************)
\* number of basic blocks of a CFG of the graph family
NumBlocks == 3
\* largest number of outgoing edges of the block whose edges vary freely
MaxEdges == 4
\* largest total number of instructions of a CFG of the token family
MaxLines == 2
\* number of CFGs compacted in a row with one shared token dictionary
MaxCompactions == 2
\* number of worker processes sharing one atomic token dictionary file
NumWorkers == 2
\* number of calls the workers make on the shared dictionary, in total
MaxOps == 2
MaxBuildEdges == 2
MaxTokens == 3
MaxTotal == 10

(***************************************************************************)
(* Program constants                                                       *)
(***************************************************************************)
NORMAL_EDGE_CONN_VALUE == 1
FUNCTION_CALL_EDGE_CONN_VALUE == 2
DEFAULT_IMMEDIATE_THRESHOLD == 5000

\* MemCFG.BlockInfoBitMask
IS_FUNCTION_CALL == 1
IS_FUNCTION_ENTRY == 2
IS_FUNCTION_RETURN == 4
IS_IN_EXTERN_FUNCTION == 8
IS_FUNCTION_JUMP == 16
IS_MULTI_FUNCTION_CALL == 32
NumBlockInfoBitMask == 6

\* EdgeType
NORMAL == "normal"
FUNCTION_CALL == "function_call"
EdgeTypes == <<NORMAL, FUNCTION_CALL>>

\* the widths get_smallest_np_dtype tries, in order
DtypeWidths == <<8, 16, 32, 64>>

(***************************************************************************)
(* Generic helpers                                                         *)
(***************************************************************************)
Pow2(n) == 2 ^ n

Range(s) == {s[i] : i \in DOMAIN s}

RECURSIVE SumSeq(_)
SumSeq(s) == IF s = <<>> THEN 0 ELSE Head(s) + SumSeq(Tail(s))

RECURSIVE Flatten(_)
Flatten(ss) == IF ss = <<>> THEN <<>> ELSE Head(ss) \o Flatten(Tail(ss))

\* the elements of a finite set of integers in ascending order (sorted())
RECURSIVE SortedSeq(_)
SortedSeq(S) ==
    IF S = {} THEN <<>>
    ELSE LET m == CHOOSE x \in S : \A y \in S : x <= y
         IN  <<m>> \o SortedSeq(S \ {m})

\* all subsets of S with at most k elements
RECURSIVE SubsetsUpTo(_, _)
SubsetsUpTo(S, k) ==
    IF k = 0 THEN {{}}
    ELSE LET prev == SubsetsUpTo(S, k - 1)
         IN  prev \cup {T \cup {e} : T \in prev, e \in S}

\* all sequences over S of length at most k
RECURSIVE SeqsUpTo(_, _)
SeqsUpTo(S, k) ==
    IF k = 0 THEN {<<>>}
    ELSE LET prev == SeqsUpTo(S, k - 1)
         IN  prev \cup {Append(s, e) : s \in prev, e \in S}

(***************************************************************************)
(* Strings                                                                 *)
(***************************************************************************)
Digits == <<"0", "1", "2", "3", "4", "5", "6", "7", "8", "9">>
DigitChars == Range(Digits)
HexChars == <<"0", "1", "2", "3", "4", "5", "6", "7", "8", "9", "a", "b", "c", "d", "e", "f">>

CharVal(c) == (CHOOSE i \in DOMAIN HexChars : HexChars[i] = c) - 1

\* str.join
RECURSIVE Join(_, _)
Join(strs, sep) ==
    IF strs = <<>> THEN <<>>
    ELSE IF Len(strs) = 1 THEN strs[1]
    ELSE strs[1] \o sep \o Join(Tail(strs), sep)

StartsWith(s, p) == Len(s) >= Len(p) /\ SubSeq(s, 1, Len(p)) = p

\* str(n) of a natural number
RECURSIVE DecStr(_)
DecStr(n) == IF n < 10 THEN <<Digits[n + 1]>> ELSE DecStr(n \div 10) \o <<Digits[(n % 10) + 1]>>

RECURSIVE ParseDigits(_, _, _)
ParseDigits(s, base, acc) ==
    IF s = <<>> THEN acc ELSE ParseDigits(Tail(s), base, acc * base + CharVal(Head(s)))

\* int(token, 0) for the decimal and 0x-hexadecimal literals the model uses
imm_to_int(token) ==
    IF StartsWith(token, <<"0", "x">>) THEN ParseDigits(SubSeq(token, 3, Len(token)), 16, 0)
    ELSE ParseDigits(token, 10, 0)

\* str.split('@')[0]
RECURSIVE SplitAtHead(_)
SplitAtHead(s) ==
    IF s = <<>> \/ Head(s) = "@" THEN <<>> ELSE <<Head(s)>> \o SplitAtHead(Tail(s))

S_call == <<"c", "a", "l", "l">>
S_ret == <<"r", "e", "t">>
S_nop == <<"n", "o", "p">>
S_jmp == <<"j", "m", "p">>
S_push == <<"p", "u", "s", "h">>
S_rax == <<"r", "a", "x">>
S_lock_sp == <<"l", "o", "c", "k", " ">>
S_main == <<"m", "a", "i", "n">>
S_malloc_plt == <<"m", "a", "l", "l", "o", "c", "@", "p", "l", "t">>
S_malloc == <<"m", "a", "l", "l", "o", "c">>
S_helper == <<"h", "e", "l", "p", "e", "r">>

INSTRUCTION_START_TOKEN == <<"#", "s", "t", "a", "r", "t", "_", "i", "n", "s", "t", "r", "#">>
IMMEDIATE_VALUE_STR == <<"i", "m", "m", "v", "a", "l">>
FUNCTION_CALL_STR == <<"f", "u", "n", "c">>
RECURSIVE_FUNCTION_CALL_STR == <<"s", "e", "l", "f">>
INTERNAL_FUNCTION_CALL_STR == <<"i", "n", "n", "e", "r", "f", "u", "n", "c">>
EXTERNAL_FUNCTION_CALL_STR == <<"e", "x", "t", "e", "r", "n", "f", "u", "n", "c">>
MULTI_FUNCTION_CALL_STR == <<"m", "u", "l", "t", "i", "f", "u", "n", "c">>

\* RE_RETURN_INSTRUCTION.fullmatch(s): [ \t\n]*(?:lock )*(?:ret[nf]?).*
RECURSIVE StripLeadingWs(_)
StripLeadingWs(s) ==
    IF s # <<>> /\ Head(s) \in {" ", "\t", "\n"} THEN StripLeadingWs(Tail(s)) ELSE s

RECURSIVE StripLocks(_)
StripLocks(s) ==
    IF StartsWith(s, S_lock_sp) THEN StripLocks(SubSeq(s, Len(S_lock_sp) + 1, Len(s))) ELSE s

RE_RETURN_INSTRUCTION(s) ==
    LET rest == StripLocks(StripLeadingWs(s))
    IN  /\ StartsWith(rest, S_ret)
        /\ \A i \in (Len(S_ret) + 1)..Len(rest) : rest[i] # "\n"

(***************************************************************************)
(* CFG: functions_dict / blocks_dict keyed by address.  A function is      *)
(* [address, name, is_extern_function, blocks]; a block is [address,       *)
(* parent_function, edges_in, edges_out, asm_lines]; an edge is            *)
(* [from_block, to_block, edge_type] (addresses stand for the objects).    *)
(* An asm line is [addr, is_str, val]: val is the raw instruction (its     *)
(* token list) when is_str, and the list of normalized tokens otherwise.   *)
(***************************************************************************)
NoNormalizer == [kind |-> "none"]

CFGEdge(from, to, type) == [from_block |-> from, to_block |-> to, edge_type |-> type]

\* CFG.blocks / CFG.functions: sorted by address
blocks(cfg) == SortedSeq(DOMAIN cfg.blocks_dict)
functions(cfg) == SortedSeq(DOMAIN cfg.functions_dict)
num_blocks(cfg) == Cardinality(DOMAIN cfg.blocks_dict)

\* {x: i for i, x in enumerate(seq)}[x]
IndexOf(seq, x) == (CHOOSE i \in DOMAIN seq : seq[i] = x) - 1

parent_function(cfg, block) == cfg.functions_dict[block.parent_function]

\* CFGBasicBlock.get_sorted_edges(edge_types, direction='out'): one list per
\* edge type, each sorted by the address of the block the edge leads to
get_sorted_edges_out(block, edge_types) ==
    [k \in DOMAIN edge_types |->
        LET tos == {e.to_block : e \in {x \in block.edges_out : x.edge_type = edge_types[k]}}
        IN  [i \in 1..Cardinality(tos) |->
                CFGEdge(block.address, SortedSeq(tos)[i], edge_types[k])]]

\* CFGBasicBlock.num_asm_lines
block_num_asm_lines(block) ==
    IF Len(block.asm_lines) > 0 /\ block.asm_lines[1].is_str
    THEN Len(block.asm_lines)
    ELSE SumSeq([i \in DOMAIN block.asm_lines |-> Len(block.asm_lines[i].val)])

\* CFG.num_asm_lines
cfg_num_asm_lines(cfg) ==
    SumSeq([i \in 1..num_blocks(cfg) |-> block_num_asm_lines(cfg.blocks_dict[blocks(cfg)[i]])])

\* the text of a raw instruction: its tokens as the disassembler printed them
RawText(toks) == Join([i \in DOMAIN toks |-> toks[i].tok], <<" ">>)

is_function_return(cfg, block) ==
    LET pf == parent_function(cfg, block)
        extern_empty == pf.is_extern_function /\ Len(pf.blocks) = 0
    IN  IF Len(block.asm_lines) = 0 THEN extern_empty
        ELSE LET last == block.asm_lines[Len(block.asm_lines)]
                 last_line == IF last.is_str THEN RawText(last.val) ELSE last.val[1]
             IN  RE_RETURN_INSTRUCTION(last_line) \/ extern_empty

is_function_entry(cfg, block) == block.address = parent_function(cfg, block).address

is_function_call(block) == \E e \in block.edges_out : e.edge_type = FUNCTION_CALL

is_function_jump(cfg, block) ==
    \E e \in block.edges_out :
        /\ e.edge_type = NORMAL
        /\ cfg.blocks_dict[e.to_block].parent_function # block.parent_function

is_multi_function_call(block) ==
    LET edge_lists == get_sorted_edges_out(block, EdgeTypes)
    IN  Len(edge_lists[2]) >= 2 \/ (Len(edge_lists[2]) = 1 /\ Len(edge_lists[1]) > 1)

(***************************************************************************)
(* MemCFG                                                                  *)
(***************************************************************************)
DtypeMax(w) == Pow2(w) - 1

\* get_smallest_np_dtype(val, signed=False): the width of the first unsigned
\* dtype, tried in order, whose maximum exceeds val; 0 when it raises ValueError
RECURSIVE TryDtypes(_, _)
TryDtypes(val, i) ==
    IF i > Len(DtypeWidths) THEN 0
    ELSE IF val < DtypeMax(DtypeWidths[i]) THEN DtypeWidths[i]
    ELSE TryDtypes(val, i + 1)

get_smallest_np_dtype(val) == IF val < 0 THEN 0 ELSE TryDtypes(val, 1)

\* storing a Python int into an unsigned numpy array of width w
Store(v, w) == v % Pow2(w)

\* a variant of SetDefaultAll that numbers a new token one above the largest
\* id in the dictionary
RECURSIVE SetDefaultAll_above_largest(_, _)
SetDefaultAll_above_largest(d, toks) ==
    IF toks = <<>> THEN d
    ELSE IF Head(toks) \in DOMAIN d THEN SetDefaultAll_above_largest(d, Tail(toks))
    ELSE SetDefaultAll_above_largest(
            d @@ (Head(toks) :> IF DOMAIN d = {} THEN 0
                                ELSE 1 + CHOOSE v \in Range(d) : \A u \in Range(d) : u <= v),
            Tail(toks))

\* dict.setdefault(t, len(d)) for every token of the sequence, in order
RECURSIVE SetDefaultAll(_, _)
SetDefaultAll(d, toks) ==
    IF toks = <<>> THEN d
    ELSE LET t == Head(toks)
             d2 == IF t \in DOMAIN d THEN d ELSE d @@ (t :> Cardinality(DOMAIN d))
         IN  SetDefaultAll(d2, Tail(toks))

\* [t for l in block.asm_lines for t in l[1]]
BlockTokens(block) == Flatten([i \in DOMAIN block.asm_lines |-> block.asm_lines[i].val])

\* the tokens of the whole CFG in the order the constructor visits them
CFGTokens(cfg) == Flatten([i \in 1..num_blocks(cfg) |-> BlockTokens(cfg.blocks_dict[blocks(cfg)[i]])])

\* MemCFG._block_flags_int
Flag(mask, cond) == IF cond THEN mask ELSE 0

block_flags_int(cfg, block) ==
      Flag(IS_FUNCTION_CALL, is_function_call(block))
    + Flag(IS_FUNCTION_ENTRY, is_function_entry(cfg, block))
    + Flag(IS_FUNCTION_RETURN, is_function_return(cfg, block))
    + Flag(IS_IN_EXTERN_FUNCTION, parent_function(cfg, block).is_extern_function)
    + Flag(IS_FUNCTION_JUMP, is_function_jump(cfg, block))

\* a variant of added_minus_1 that separates only blocks with two or more
\* function call edges
added_minus_1_only_calls(block) ==
    IF Cardinality({e \in block.edges_out : e.edge_type = FUNCTION_CALL}) >= 2 THEN 1 ELSE 0

\* whether the constructor appends the -1 separator for this block
added_minus_1(block) ==
    LET edge_lists == get_sorted_edges_out(block, EdgeTypes)
    IN  IF Len(edge_lists[2]) >= 2 \/ (Len(edge_lists[2]) = 1 /\ Len(edge_lists[1]) > 1)
        THEN 1 ELSE 0

\* the entries one block contributes to the graph_c list
BlockGraphC(cfg, block) ==
    LET edge_lists == get_sorted_edges_out(block, EdgeTypes)
        idx(e) == IndexOf(blocks(cfg), e.to_block)
    IN  [i \in DOMAIN edge_lists[2] |-> idx(edge_lists[2][i])]
        \o (IF added_minus_1(block) = 1 THEN <<-1>> ELSE <<>>)
        \o [i \in DOMAIN edge_lists[1] |-> idx(edge_lists[1][i])]

\* a variant of CumSum that stores the numbers as they are
CumSum_not_summed(s, acc, w) == [i \in DOMAIN s |-> Store(s[i], w)]

\* np.cumsum
RECURSIVE CumSum(_, _, _)
CumSum(s, acc, w) ==
    IF s = <<>> THEN <<>>
    ELSE <<Store(acc + Head(s), w)>> \o CumSum(Tail(s), acc + Head(s), w)

NoMemCFG == [kind |-> "none"]

\* MemCFG.__init__(cfg, using_tokens=tokens) for a CFG that carries its
\* normalizer.  Yields [error, tokens, mem]: the token dictionary is updated
\* in place before the arrays are sized, so it changes even when sizing fails.
MemCFG(cfg, using_tokens) ==
    IF cfg.normalizer = NoNormalizer
    THEN [error |-> "ValueError", tokens |-> using_tokens, mem |-> NoMemCFG]
    ELSE
    LET bs == blocks(cfg)
        n == Len(bs)
        blk(i) == cfg.blocks_dict[bs[i]]
        toks == SetDefaultAll(using_tokens, CFGTokens(cfg))
        max_token == Cardinality(DOMAIN toks)
        w_asm == get_smallest_np_dtype(max_token)
        w_asm_idx == get_smallest_np_dtype(cfg_num_asm_lines(cfg))
        w_func == get_smallest_np_dtype(Cardinality(DOMAIN cfg.functions_dict))
        w_flags == get_smallest_np_dtype(NumBlockInfoBitMask)
        graph_c_list == Flatten([i \in 1..n |-> BlockGraphC(cfg, blk(i))])
        graph_r_list == <<0>> \o [i \in 1..n |->
            SumSeq([k \in 1..2 |-> Len(get_sorted_edges_out(blk(i), EdgeTypes)[k])])
                + added_minus_1(blk(i))]
        w_c == get_smallest_np_dtype(Cardinality(DOMAIN cfg.blocks_dict) + 1)
        w_r == get_smallest_np_dtype(Len(graph_c_list))
        all_toks == CFGTokens(cfg)
        asm_starts == [i \in 1..n |-> SumSeq([j \in 1..(i - 1) |-> block_num_asm_lines(blk(j))])]
    IN  IF 0 \in {w_asm, w_asm_idx, w_func, w_flags, w_c, w_r}
        THEN [error |-> "ValueError", tokens |-> toks, mem |-> NoMemCFG]
        ELSE [error |-> "",
              tokens |-> toks,
              mem |-> [kind |-> "memcfg",
                       normalizer |-> cfg.normalizer,
                       asm_lines |-> [i \in DOMAIN all_toks |-> Store(toks[all_toks[i]], w_asm)],
                       asm_lines_dtype |-> w_asm,
                       block_asm_idx |-> [i \in 1..(n + 1) |->
                            IF i = n + 1 THEN Store(cfg_num_asm_lines(cfg), w_asm_idx)
                            ELSE Store(asm_starts[i], w_asm_idx)],
                       block_asm_idx_dtype |-> w_asm_idx,
                       block_func_idx |-> [i \in 1..n |->
                            Store(IndexOf(functions(cfg), blk(i).parent_function), w_func)],
                       block_func_idx_dtype |-> w_func,
                       block_flags |-> [i \in 1..n |->
                            Store(block_flags_int(cfg, blk(i))
                                    + IS_MULTI_FUNCTION_CALL * added_minus_1(blk(i)), w_flags)],
                       block_flags_dtype |-> w_flags,
                       graph_c |-> [i \in DOMAIN graph_c_list |-> Store(graph_c_list[i], w_c)],
                       graph_c_dtype |-> w_c,
                       graph_r |-> CumSum(graph_r_list, 0, w_r),
                       graph_r_dtype |-> w_r,
                       function_idx_to_name |-> [i \in 1..Len(functions(cfg)) |->
                            cfg.functions_dict[functions(cfg)[i]].name]]]

\* bit test of a stored flag word
HasFlag(word, mask) == (word \div mask) % 2 = 1

\* MemCFG.is_block_function_call / is_block_multi_function_call /
\* is_block_function_return / is_block_extern_function (block_idx is 0-based)
is_block_function_call(mem, block_idx) == HasFlag(mem.block_flags[block_idx + 1], IS_FUNCTION_CALL)
is_block_multi_function_call(mem, block_idx) == HasFlag(mem.block_flags[block_idx + 1], IS_MULTI_FUNCTION_CALL)
is_block_function_return(mem, block_idx) == HasFlag(mem.block_flags[block_idx + 1], IS_FUNCTION_RETURN)
is_block_extern_function(mem, block_idx) == HasFlag(mem.block_flags[block_idx + 1], IS_IN_EXTERN_FUNCTION)

\* graph_c[graph_r[block_idx] : graph_r[block_idx + 1]]
GraphCSlice(mem, block_idx) ==
    SubSeq(mem.graph_c, mem.graph_r[block_idx + 1] + 1, mem.graph_r[block_idx + 2])

\* ret[ret != sentinel]
RECURSIVE FilterNe(_, _)
FilterNe(s, v) ==
    IF s = <<>> THEN <<>>
    ELSE (IF Head(s) # v THEN <<Head(s)>> ELSE <<>>) \o FilterNe(Tail(s), v)

\* a variant of get_block_edges_out that types the edges of a function call
\* block by position alone, without looking for the separator
get_block_edges_out_by_position(mem, block_idx) ==
    [error |-> "",
     edges |-> GraphCSlice(mem, block_idx),
     types |-> [i \in DOMAIN GraphCSlice(mem, block_idx) |->
                    IF is_block_function_call(mem, block_idx) /\ i = 1
                    THEN FUNCTION_CALL_EDGE_CONN_VALUE ELSE NORMAL_EDGE_CONN_VALUE]]

\* MemCFG.get_block_edges_out(block_idx, ret_edge_types=True): [error, edges, types]
get_block_edges_out(mem, block_idx) ==
    LET ret == GraphCSlice(mem, block_idx)
        max == DtypeMax(mem.graph_c_dtype)
    IN  IF is_block_function_call(mem, block_idx)
        THEN IF is_block_multi_function_call(mem, block_idx)
             THEN IF \A i \in DOMAIN ret : ret[i] # max
                  THEN [error |-> "IndexError", edges |-> <<>>, types |-> <<>>]
                  ELSE LET split_idx == (CHOOSE i \in DOMAIN ret :
                                            ret[i] = max /\ \A j \in 1..(i - 1) : ret[j] # max) - 1
                       IN  [error |-> "",
                            edges |-> FilterNe(ret, max),
                            types |-> [i \in 1..split_idx |-> FUNCTION_CALL_EDGE_CONN_VALUE]
                                      \o [i \in 1..(Len(ret) - split_idx - 1) |-> NORMAL_EDGE_CONN_VALUE]]
             ELSE [error |-> "",
                   edges |-> ret,
                   types |-> IF Len(ret) = 1 THEN <<FUNCTION_CALL_EDGE_CONN_VALUE>>
                             ELSE <<FUNCTION_CALL_EDGE_CONN_VALUE, NORMAL_EDGE_CONN_VALUE>>]
        ELSE [error |-> "", edges |-> ret, types |-> [i \in DOMAIN ret |-> NORMAL_EDGE_CONN_VALUE]]

\* MemCFG.num_blocks and MemCFG.num_edges
mem_num_blocks(mem) == Len(mem.block_func_idx)
num_edges(mem) == Len(mem.graph_c)

\* MemCFG.get_edge_values(): [error, out, written].  edge_values starts as
\* np.empty(graph_c.shape); written holds the positions the loop has assigned.
\* A function call block assigns the pair (function call, normal) to
\* edge_values[evi:evi+2], which fails to broadcast when fewer than two
\* positions are left; another block assigns the normal value to the
\* l = graph_r[bi + 1] - graph_r[bi] positions from evi, clipped to the array.
RECURSIVE EdgeValuesLoop(_, _, _, _, _)
EdgeValuesLoop(mem, bi, evi, edge_values, written) ==
    IF bi = mem_num_blocks(mem)
    THEN [error |-> "", out |-> edge_values, written |-> written]
    ELSE IF is_block_function_call(mem, bi)
    THEN IF evi + 2 > Len(edge_values)
         THEN [error |-> "ValueError", out |-> <<>>, written |-> {}]
         ELSE EdgeValuesLoop(mem, bi + 1, evi + 2,
                             [edge_values EXCEPT ![evi + 1] = FUNCTION_CALL_EDGE_CONN_VALUE,
                                                 ![evi + 2] = NORMAL_EDGE_CONN_VALUE],
                             written \cup {evi + 1, evi + 2})
    ELSE LET l == mem.graph_r[bi + 2] - mem.graph_r[bi + 1]
             slice == {i \in DOMAIN edge_values : evi < i /\ i <= evi + l}
         IN  EdgeValuesLoop(mem, bi + 1, evi + l,
                            [i \in DOMAIN edge_values |->
                                IF i \in slice THEN NORMAL_EDGE_CONN_VALUE ELSE edge_values[i]],
                            written \cup slice)

get_edge_values(mem) ==
    EdgeValuesLoop(mem, 0, 0, [i \in 1..num_edges(mem) |-> 0], {})

\* MemCFG.get_coo_indices(): the rows <<bi, graph_c[k]>> for the positions k
\* of graph_c from graph_r[bi] up to graph_r[bi + 1], for every block bi
get_coo_indices(mem) ==
    [k \in 1..num_edges(mem) |->
        <<CHOOSE bi \in 0..(mem_num_blocks(mem) - 1) :
                mem.graph_r[bi + 1] < k /\ k <= mem.graph_r[bi + 2],
          mem.graph_c[k]>>]

(***************************************************************************)
(* Normalizers.  A normalizer is [kind, name, tokenization_level,          *)
(* token_sep, imm_threshold, special_functions].  A raw instruction is the *)
(* list of [name, tok] pairs the tokenizer yields for it; a line of the    *)
(* normalizer is a list of [name, tok, old] triplets.                      *)
(***************************************************************************)
OPCODE_LEVEL == "op"
INSTRUCTION_LEVEL == "inst"

T_OPCODE == "opcode"
T_IMMEDIATE == "immediate"
T_REGISTER == "register"
T_MEMORY_SIZE == "memory_size"
T_INSTRUCTION_PREFIX == "prefix"
T_SPACING == "spacing"
T_NEWLINE == "newline"
T_INSTRUCTION_START == "inst_start"
T_INSTRUCTION_ADDRESS == "inst_addr"
T_BRANCH_PREDICTION == "branch_prediction"
T_OPEN_BRACKET == "open_bracket"
T_CLOSE_BRACKET == "close_bracket"
T_PLUS_SIGN == "plus_sign"
T_TIMES_SIGN == "times_sign"

SPECIAL_FUNCTION_NAMES == {S_malloc}

\* BaseNormalizer.__init__ / SafeNormalizer.__init__
BaseNormalizer(level) ==
    [kind |-> "normalizer", name |-> "base", tokenization_level |-> level,
     token_sep |-> <<" ">>, imm_threshold |-> 0, special_functions |-> {}]

SafeNormalizer(level) ==
    [kind |-> "normalizer", name |-> "safe", tokenization_level |-> level,
     token_sep |-> <<"_">>, imm_threshold |-> DEFAULT_IMMEDIATE_THRESHOLD,
     special_functions |-> SPECIAL_FUNCTION_NAMES]

Tok(name, tok) == [name |-> name, tok |-> tok]
Triplet(name, tok, old) == [name |-> name, tok |-> tok, old |-> old]

\* the context normalize() is given: none, a CFG and a block, or a MemCFG and a block index
NoContext == [kind |-> "none"]
CFGContext(cfg, address) == [kind |-> "cfg", cfg |-> cfg, block |-> address]
MemCFGContext(mem, block_idx) == [kind |-> "memcfg", cfg |-> mem, block |-> block_idx]

\* handle_immediate: BaseNormalizer converts to decimal, SafeNormalizer thresholds
handle_immediate(n, token) ==
    LET val == imm_to_int(token)
    IN  IF n.name = "base" THEN DecStr(val)
        ELSE IF val <= n.imm_threshold THEN DecStr(val) ELSE IMMEDIATE_VALUE_STR

\* special_function_call with a MemCFG: multi_call, self_call and
\* extern_func_name from what get_block_edges_out(block, True) returned
CallInfoMemCFG(mem, block_idx, out) ==
    IF Len(out.types) > 0 /\ out.types[1] = FUNCTION_CALL_EDGE_CONN_VALUE
    THEN [multi_call |-> Cardinality({i \in DOMAIN out.types :
                            out.types[i] = FUNCTION_CALL_EDGE_CONN_VALUE}) > 1,
          self_call |-> mem.block_func_idx[block_idx + 1] = mem.block_func_idx[out.edges[1] + 1],
          is_extern |-> is_block_extern_function(mem, out.edges[1]),
          extern_func_name |-> mem.function_idx_to_name[mem.block_func_idx[out.edges[1] + 1] + 1]]
    ELSE [multi_call |-> FALSE, self_call |-> FALSE, is_extern |-> FALSE, extern_func_name |-> <<>>]

\* a variant of CallInfoCFG that takes a block for a multi-function call
\* whenever CFGBasicBlock.is_multi_function_call says so
CallInfoCFG_is_multi(cfg_, block, fc_out) ==
    IF is_multi_function_call(block)
    THEN [multi_call |-> TRUE, self_call |-> FALSE, is_extern |-> FALSE, extern_func_name |-> <<>>]
    ELSE IF Len(fc_out) = 0
    THEN [multi_call |-> FALSE, self_call |-> FALSE, is_extern |-> FALSE, extern_func_name |-> <<>>]
    ELSE [multi_call |-> FALSE,
          self_call |-> cfg_.blocks_dict[fc_out[1].to_block].parent_function = block.parent_function,
          is_extern |-> parent_function(cfg_, cfg_.blocks_dict[fc_out[1].to_block]).is_extern_function,
          extern_func_name |-> parent_function(cfg_, cfg_.blocks_dict[fc_out[1].to_block]).name]

\* special_function_call with a CFG: the same from the block's sorted
\* outgoing function call edges
CallInfoCFG(cfg_, block, fc_out) ==
    IF Len(fc_out) > 1
    THEN [multi_call |-> TRUE, self_call |-> FALSE, is_extern |-> FALSE, extern_func_name |-> <<>>]
    ELSE IF Len(fc_out) = 0
    THEN [multi_call |-> FALSE, self_call |-> FALSE, is_extern |-> FALSE, extern_func_name |-> <<>>]
    ELSE [multi_call |-> FALSE,
          self_call |-> cfg_.blocks_dict[fc_out[1].to_block].parent_function = block.parent_function,
          is_extern |-> parent_function(cfg_, cfg_.blocks_dict[fc_out[1].to_block]).is_extern_function,
          extern_func_name |-> parent_function(cfg_, cfg_.blocks_dict[fc_out[1].to_block]).name]

CallInfo(ctx) ==
    IF ctx.kind = "memcfg"
    THEN CallInfoMemCFG(ctx.cfg, ctx.block, get_block_edges_out(ctx.cfg, ctx.block))
    ELSE CallInfoCFG(ctx.cfg, ctx.cfg.blocks_dict[ctx.block],
                     get_sorted_edges_out(ctx.cfg.blocks_dict[ctx.block], <<FUNCTION_CALL>>)[1])

\* a variant of CallString that looks at the callee being extern before it
\* looks at the call being recursive
CallString_extern_first(n, info) ==
    IF info.multi_call THEN MULTI_FUNCTION_CALL_STR
    ELSE IF info.is_extern
         THEN IF SplitAtHead(info.extern_func_name) \in n.special_functions
              THEN <<"{">> \o SplitAtHead(info.extern_func_name) \o <<"}">>
              ELSE EXTERNAL_FUNCTION_CALL_STR
    ELSE IF info.self_call THEN RECURSIVE_FUNCTION_CALL_STR
    ELSE INTERNAL_FUNCTION_CALL_STR

\* the string special_function_call writes over the operand of the call
CallString(n, info) ==
    IF info.multi_call THEN MULTI_FUNCTION_CALL_STR
    ELSE IF info.self_call THEN RECURSIVE_FUNCTION_CALL_STR
    ELSE IF info.is_extern
         THEN IF SplitAtHead(info.extern_func_name) \in n.special_functions
              THEN <<"{">> \o SplitAtHead(info.extern_func_name) \o <<"}">>
              ELSE EXTERNAL_FUNCTION_CALL_STR
    ELSE INTERNAL_FUNCTION_CALL_STR

\* special_function_call(self, idx, line, cfg, block): [line, idx, error];
\* idx is the 1-based position of the 'call' opcode
special_function_call(n, idx, line, ctx) ==
    IF idx + 1 > Len(line) THEN [line |-> line, idx |-> idx, error |-> "IndexError"]
    ELSE IF ctx.kind = "none"
    THEN [line |-> [line EXCEPT ![idx + 1] = Triplet(T_IMMEDIATE, FUNCTION_CALL_STR, line[idx + 1].old)],
          idx |-> idx + 2, error |-> ""]
    ELSE IF line[idx + 1].old[1] \notin DigitChars
    THEN [line |-> line, idx |-> idx + 2, error |-> ""]
    ELSE [line |-> [line EXCEPT ![idx + 1] =
                        Triplet(line[idx + 1].name, CallString(n, CallInfo(ctx)), line[idx + 1].old)],
          idx |-> idx + 2, error |-> ""]

\* clean_nop(idx, line)
clean_nop(line) ==
    [line |-> <<Triplet(T_OPCODE, S_nop, Join([i \in DOMAIN line |-> line[i].old], <<" ">>))>>,
     idx |-> 2, error |-> ""]

\* handle_function_call: the default returns idx + 1, SafeNormalizer uses special_function_call
handle_function_call(n, idx, line, ctx) ==
    IF n.name = "safe" THEN special_function_call(n, idx, line, ctx)
    ELSE [line |-> line, idx |-> idx + 1, error |-> ""]

\* handle_jump: the default returns idx + 1
handle_jump(idx, line) == [line |-> line, idx |-> idx + 1, error |-> ""]

\* the first of the opcode handlers 'nop', 'call', 'j.*' whose pattern
\* matches the opcode at idx, applied; without a match the loop steps on
OpcodeHandler(n, idx, line, ctx) ==
    IF line[idx].tok = S_nop THEN clean_nop(line)
    ELSE IF line[idx].tok = S_call THEN handle_function_call(n, idx, line, ctx)
    ELSE IF Head(line[idx].tok) = "j" THEN handle_jump(idx, line)
    ELSE [line |-> line, idx |-> idx + 1, error |-> ""]

\* BaseNormalizer.handle_instruction: the loop over the line from idx on
RECURSIVE handle_instruction(_, _, _, _)
RECURSIVE HandleInstructionFrom(_, _, _)
HandleInstructionFrom(n, r, ctx) ==
    IF r.error # "" THEN [line |-> r.line, error |-> r.error]
    ELSE handle_instruction(n, r.line, r.idx, ctx)

handle_instruction(n, line, idx, ctx) ==
    IF idx > Len(line) THEN [line |-> line, error |-> ""]
    ELSE IF line[idx].name # T_OPCODE THEN handle_instruction(n, line, idx + 1, ctx)
    ELSE HandleInstructionFrom(n, OpcodeHandler(n, idx, line, ctx), ctx)

\* the tail of handle_newline: append the handled line to the sentence
\* according to the tokenization level
AppendLine(n, sentence, handled) ==
    IF handled.error # "" THEN [sentence |-> sentence, error |-> handled.error]
    ELSE IF n.tokenization_level = OPCODE_LEVEL
    THEN [sentence |-> Append(sentence, INSTRUCTION_START_TOKEN)
                        \o [i \in DOMAIN handled.line |-> handled.line[i].tok],
          error |-> ""]
    ELSE [sentence |-> Append(sentence,
                            Join([i \in DOMAIN handled.line |-> handled.line[i].tok], n.token_sep)),
          error |-> ""]

\* BaseNormalizer.handle_newline: [sentence, error]
handle_newline(n, line, sentence, ctx) ==
    IF Len(line) = 0 THEN [sentence |-> sentence, error |-> ""]
    ELSE AppendLine(n, sentence, handle_instruction(n, line, 1, ctx))

IgnoredTokenNames == {T_SPACING, T_INSTRUCTION_ADDRESS, T_BRANCH_PREDICTION}

\* MEM_EXPR_TOKEN_MAPPING, "?" for a token name it does not hold
MEM_EXPR_TOKEN_MAPPING(name) ==
    IF name = T_OPEN_BRACKET THEN <<"[">>
    ELSE IF name = T_CLOSE_BRACKET THEN <<"]">>
    ELSE IF name = T_SPACING THEN <<>>
    ELSE IF name = T_REGISTER THEN <<"r">>
    ELSE IF name = T_IMMEDIATE THEN <<"i">>
    ELSE IF name = T_PLUS_SIGN THEN <<"p">>
    ELSE IF name = T_TIMES_SIGN THEN <<"t">>
    ELSE <<"?">>

\* what is left of s after RE_MEM_EXPR_OBJ, (?:r(?:ti)?|i), matched at its
\* start, <<"?">> if it does not match
AfterMemObj(s) ==
    IF s = <<>> THEN <<"?">>
    ELSE IF Head(s) = "i" THEN Tail(s)
    ELSE IF Head(s) = "r"
    THEN IF StartsWith(Tail(s), <<"t", "i">>) THEN SubSeq(s, 4, Len(s)) ELSE Tail(s)
    ELSE <<"?">>

\* memobj(?:p memobj)*\] matches all of s
RECURSIVE MemObjsMatch(_)
MemObjsMatch(s) ==
    IF AfterMemObj(s) = <<"]">> THEN TRUE
    ELSE IF AfterMemObj(s) # <<>> /\ Head(AfterMemObj(s)) = "p"
    THEN MemObjsMatch(Tail(AfterMemObj(s)))
    ELSE FALSE

\* RE_MEM_EXPR_MATCH.fullmatch(s) is not None
RE_MEM_EXPR_MATCH(s) == s # <<>> /\ Head(s) = "[" /\ MemObjsMatch(Tail(s))

\* valid_memory_expression(memory_expression, line): the error it raises
valid_memory_expression(expr) ==
    IF \E i \in DOMAIN expr : MEM_EXPR_TOKEN_MAPPING(expr[i].name) = <<"?">>
    THEN "MalformedMemoryExpressionError"
    ELSE IF RE_MEM_EXPR_MATCH(Flatten([i \in DOMAIN expr |-> MEM_EXPR_TOKEN_MAPPING(expr[i].name)]))
    THEN ""
    ELSE "MalformedMemoryExpressionError"

\* the loop state of normalize after a newline token was handled
AfterNewline(r, memory_start) ==
    [line |-> <<>>, sentence |-> r.sentence, error |-> r.error, memory_start |-> memory_start]

\* the branch of the loop for a close bracket of an open memory expression:
\* line is the line with the bracket appended
CloseBracket(st, line) ==
    [st EXCEPT !.line = line,
               !.error = valid_memory_expression(SubSeq(line, st.memory_start + 1, Len(line))),
               !.memory_start = -1]

\* one iteration of the token loop of BaseNormalizer.normalize on the state
\* [line, sentence, error, memory_start], for the token names of the
\* modelled instructions
NormalizeToken(n, st, t, ctx) ==
    IF st.error # "" THEN st
    ELSE IF t.name \in IgnoredTokenNames THEN st
    ELSE IF t.name = T_NEWLINE \/ t.name = T_INSTRUCTION_START
    THEN IF st.memory_start >= 0 THEN [st EXCEPT !.error = "MalformedMemoryExpressionError"]
         ELSE AfterNewline(handle_newline(n, st.line, st.sentence, ctx), st.memory_start)
    ELSE IF t.name = T_OPEN_BRACKET
    THEN IF st.memory_start >= 0 THEN [st EXCEPT !.error = "MalformedMemoryExpressionError"]
         ELSE [st EXCEPT !.memory_start = Len(st.line),
                         !.line = Append(@, Triplet(t.name, t.tok, t.tok))]
    ELSE IF t.name = T_CLOSE_BRACKET
    THEN IF st.memory_start < 0 THEN [st EXCEPT !.error = "MalformedMemoryExpressionError"]
         ELSE CloseBracket(st, Append(st.line, Triplet(t.name, t.tok, t.tok)))
    ELSE IF t.name = T_INSTRUCTION_PREFIX
    THEN IF Len(st.line) # 0 THEN [st EXCEPT !.error = "MisplacedInstructionPrefixError"]
         ELSE [st EXCEPT !.line = Append(@, Triplet(t.name, t.tok, t.tok))]
    ELSE IF t.name = T_IMMEDIATE
    THEN [st EXCEPT !.line = Append(@, Triplet(t.name, handle_immediate(n, t.tok), t.tok))]
    ELSE IF t.name \in {T_REGISTER, T_OPCODE, T_PLUS_SIGN, T_TIMES_SIGN}
    THEN [st EXCEPT !.line = Append(@, Triplet(t.name, t.tok, t.tok))]
    ELSE IF t.name = T_MEMORY_SIZE
    THEN IF n.name = "safe" THEN st
         ELSE [st EXCEPT !.line = Append(@, Triplet(t.name, t.tok, t.tok))]
    ELSE [st EXCEPT !.error = "TypeError"]

RECURSIVE NormalizeLoop(_, _, _, _)
NormalizeLoop(n, st, toks, ctx) ==
    IF toks = <<>> THEN st
    ELSE NormalizeLoop(n, NormalizeToken(n, st, Head(toks), ctx), Tail(toks), ctx)

\* the end of normalize: whatever is left in line is one more instruction
FinishNormalize(n, st, ctx) ==
    IF st.error # "" THEN [sentence |-> <<>>, error |-> st.error]
    ELSE handle_newline(n, st.line, st.sentence, ctx)

\* BaseNormalizer.normalize(string, cfg=, block=): [sentence, error]
normalize(n, toks, ctx) ==
    FinishNormalize(n, NormalizeLoop(n, [line |-> <<>>, sentence |-> <<>>, error |-> "", memory_start |-> -1],
                                     toks, ctx), ctx)

\* BaseTokenizer.DEFAULT_NEWLINE_TUPLE; a newline_tup is a list of tokens to
\* append, the empty list for None
DEFAULT_NEWLINE_TUPLE == <<Tok(T_NEWLINE, <<"\n">>)>>

T_ROSE_INFO == "rose"
PREFIX_SPACINGS == {<<".">>, <<"_">>, <<",">>}

\* the state of the reorganizing loop before its first token
ReorganizeStart ==
    [final_app |-> <<>>, opcode |-> <<>>, found_prefix |-> FALSE, only_prefix |-> TRUE,
     prefix_spacing |-> <<>>]

\* final_app after the held opcode and the held spacing were appended
\* (opcode and prefix_spacing are lists of no or one token, empty for None)
Flushed(st) == IF st.opcode # <<>> THEN st.final_app \o st.opcode \o st.prefix_spacing
               ELSE st.final_app

\* one pass of the loop that moves the instruction prefixes and the branch
\* prediction in front of the opcode
ReorganizeToken(st, t) ==
    IF t.name = T_OPCODE
    THEN [st EXCEPT !.final_app = Flushed(st),
                    !.prefix_spacing = IF st.opcode # <<>> THEN <<>> ELSE @,
                    !.opcode = <<t>>, !.only_prefix = FALSE]
    ELSE IF t.name = T_SPACING /\ t.tok \in PREFIX_SPACINGS /\ st.opcode # <<>>
            /\ st.prefix_spacing = <<>>
    THEN [st EXCEPT !.prefix_spacing = <<t>>]
    ELSE IF t.name \in {T_INSTRUCTION_PREFIX, T_BRANCH_PREDICTION} /\ st.opcode # <<>>
    THEN [st EXCEPT !.found_prefix = TRUE,
                    !.final_app = @ \o <<t>> \o st.prefix_spacing,
                    !.prefix_spacing = <<>>]
    ELSE IF t.name = T_NEWLINE /\ st.found_prefix /\ st.only_prefix
    THEN [st EXCEPT !.final_app = Flushed(st) \o <<Tok(T_SPACING, <<" ">>)>>,
                    !.opcode = <<>>,
                    !.prefix_spacing = IF st.opcode # <<>> THEN <<>> ELSE @,
                    !.found_prefix = FALSE]
    ELSE [st EXCEPT !.final_app = Flushed(st) \o <<t>>,
                    !.opcode = <<>>,
                    !.prefix_spacing = IF st.opcode # <<>> THEN <<>> ELSE @,
                    !.found_prefix = t.name \in {T_INSTRUCTION_PREFIX, T_BRANCH_PREDICTION}
                                     \/ (t.name # T_NEWLINE /\ @),
                    !.only_prefix = t.name = T_NEWLINE
                                    \/ (t.name \in {T_INSTRUCTION_PREFIX, T_BRANCH_PREDICTION,
                                                    T_SPACING, T_ROSE_INFO} /\ @)]

\* the reorganizing loop over the tokens app; what is held when the tokens
\* end is not appended
RECURSIVE Reorganize(_, _)
Reorganize(st, app) ==
    IF app = <<>> THEN st.final_app ELSE Reorganize(ReorganizeToken(st, Head(app)), Tail(app))

\* reorganize_tokens: the string has an instruction prefix or a branch
\* prediction
reorganize_tokens(app) ==
    \E i \in DOMAIN app : app[i].name \in {T_INSTRUCTION_PREFIX, T_BRANCH_PREDICTION}

\* the tokens BaseTokenizer.tokenize yields for one string whose own tokens
\* are app
TokenizeString(app, newline_tup) ==
    IF reorganize_tokens(app) THEN Reorganize(ReorganizeStart, app \o newline_tup)
    ELSE app \o newline_tup

\* BaseTokenizer.tokenize(*strings, newline_tup=newline_tup)
tokenize(strings, newline_tup) ==
    Flatten([i \in DOMAIN strings |-> TokenizeString(strings[i], newline_tup)])

\* the start of normalize: an already normalized list of opcode-level tokens
\* is tokenized without newlines between its strings
NewlineTupFor(strings, newline_tup) ==
    IF strings # <<>> /\ strings[1] = <<Tok(T_INSTRUCTION_START, INSTRUCTION_START_TOKEN)>>
    THEN <<>> ELSE newline_tup

\* BaseNormalizer.normalize(*strings, newline_tup=newline_tup): [sentence, error]
normalize_strings(n, strings, newline_tup) ==
    normalize(n, tokenize(strings, NewlineTupFor(strings, newline_tup)), NoContext)

\* a variant of normalize_cfg_data that normalizes the instructions of a
\* block in one call and keeps the result as one asm line
normalize_cfg_data_joined(cfg, n) ==
    [cfg EXCEPT
        !.normalizer = n,
        !.blocks_dict = [a \in DOMAIN cfg.blocks_dict |->
            [cfg.blocks_dict[a] EXCEPT !.asm_lines =
                <<[addr |-> a, is_str |-> FALSE,
                   val |-> normalize_strings(n,
                                [i \in DOMAIN cfg.blocks_dict[a].asm_lines |->
                                    cfg.blocks_dict[a].asm_lines[i].val],
                                DEFAULT_NEWLINE_TUPLE).sentence]>>]]]

\* normalize_cfg_data(cfg, normalizer, inplace=False) for an unnormalized CFG:
\* every asm line of every block is replaced by its normalized token list
normalize_cfg_data(cfg, n) ==
    [cfg EXCEPT
        !.normalizer = n,
        !.blocks_dict = [a \in DOMAIN cfg.blocks_dict |->
            [cfg.blocks_dict[a] EXCEPT !.asm_lines =
                [i \in DOMAIN cfg.blocks_dict[a].asm_lines |->
                    [addr |-> cfg.blocks_dict[a].asm_lines[i].addr,
                     is_str |-> FALSE,
                     val |-> normalize(n, cfg.blocks_dict[a].asm_lines[i].val,
                                       CFGContext(cfg, a)).sentence]]]]]

\* a variant of InitError that takes an unnormalized CFG passed without a
\* normalizer for an argument of the wrong type
InitError_type_error(data, normalizer) ==
    IF "functions_dict" \notin DOMAIN data THEN "TypeError"
    ELSE IF normalizer = NoNormalizer /\ data.normalizer = NoNormalizer THEN "TypeError"
    ELSE ""

\* the exceptions at the start of MemCFG.__init__(cfg, normalizer): TypeError
\* if cfg is not a CFG, ValueError if it is unnormalized and normalizer is None
InitError(data, normalizer) ==
    IF "functions_dict" \notin DOMAIN data THEN "TypeError"
    ELSE IF normalizer = NoNormalizer /\ data.normalizer = NoNormalizer THEN "ValueError"
    ELSE ""

\* MemCFG.__init__(cfg, normalizer=normalizer, using_tokens=using_tokens):
\* the CFG is normalized first if a normalizer is passed or it has none; a
\* CFG already normalized with the normalizer passed is taken as it is
MemCFG_init(data, normalizer, using_tokens) ==
    IF InitError(data, normalizer) # ""
    THEN [error |-> InitError(data, normalizer), tokens |-> using_tokens, mem |-> NoMemCFG]
    ELSE IF normalizer # NoNormalizer /\ data.normalizer # normalizer
    THEN MemCFG(normalize_cfg_data(data, normalizer), using_tokens)
    ELSE MemCFG(data, using_tokens)

(***************************************************************************)
(* Input CFGs                                                              *)
(***************************************************************************)
BlockAddress(i) == 3 * i

\* instructions as the tokenizer yields them
I_ret == <<Tok(T_OPCODE, S_ret)>>
I_push == <<Tok(T_OPCODE, S_push), Tok(T_SPACING, <<" ">>), Tok(T_REGISTER, S_rax)>>
I_call(a) == <<Tok(T_OPCODE, S_call), Tok(T_SPACING, <<" ">>), Tok(T_IMMEDIATE, DecStr(a))>>
I_call_reg == <<Tok(T_OPCODE, S_call), Tok(T_SPACING, <<" ">>), Tok(T_REGISTER, S_rax)>>

AsmLine(addr, toks) == [addr |-> addr, is_str |-> TRUE, val |-> toks]

\* CFG.__init__ followed by add_function for every function: functions is a
\* set of [address, name, is_extern_function, blocks], blockspecs a function
\* from block address to [edges_out, asm_lines]
MakeCFG(funcs, blockspecs) ==
    LET owner(a) == CHOOSE f \in funcs : a \in Range(f.blocks)
        all_edges == UNION {blockspecs[a].edges_out : a \in DOMAIN blockspecs}
    IN  [normalizer |-> NoNormalizer,
         functions_dict |-> [fa \in {f.address : f \in funcs} |->
                                CHOOSE f \in funcs : f.address = fa],
         blocks_dict |-> [a \in DOMAIN blockspecs |->
                            [address |-> a,
                             parent_function |-> owner(a).address,
                             edges_out |-> blockspecs[a].edges_out,
                             edges_in |-> {e \in all_edges : e.to_block = a},
                             asm_lines |-> blockspecs[a].asm_lines]]]

\* ---- the graph family: NumBlocks blocks, one block with any set of at most
\* MaxEdges outgoing edges, the others following one background pattern, in
\* one or two functions
F2Kinds == {"inner", "special_extern", "extern"}
Backgrounds == {"none", "fallthrough", "call"}

GraphFunctions(split, kind) ==
    {[address |-> BlockAddress(1), name |-> S_main, is_extern_function |-> FALSE,
      blocks |-> [i \in 1..split |-> BlockAddress(i)]]}
    \cup (IF split = NumBlocks THEN {}
          ELSE {[address |-> BlockAddress(split + 1),
                 name |-> IF kind = "special_extern" THEN S_malloc_plt ELSE S_helper,
                 is_extern_function |-> kind # "inner",
                 blocks |-> [i \in 1..(NumBlocks - split) |-> BlockAddress(split + i)]]})

PossibleEdges(i) ==
    {CFGEdge(BlockAddress(i), BlockAddress(j), t) : j \in 1..NumBlocks, t \in Range(EdgeTypes)}

BackgroundEdges(i, bg) ==
    LET succ == BlockAddress((i % NumBlocks) + 1)
    IN  IF bg = "none" THEN {}
        ELSE IF bg = "fallthrough" THEN {CFGEdge(BlockAddress(i), succ, NORMAL)}
        ELSE {CFGEdge(BlockAddress(i), BlockAddress(1), FUNCTION_CALL),
              CFGEdge(BlockAddress(i), succ, NORMAL)}

\* the instructions of a block with the given outgoing edges: one direct call
\* per function call edge (an indirect call when none was resolved), then a
\* return if nothing follows the block
AsmForEdges(a, edges) ==
    LET fc == SortedSeq({e.to_block : e \in {x \in edges : x.edge_type = FUNCTION_CALL}})
        nrm == {e \in edges : e.edge_type = NORMAL}
        body == IF fc = <<>> /\ nrm # {} THEN <<I_call_reg>>
                ELSE [i \in DOMAIN fc |-> I_call(fc[i])]
        lines == body \o (IF nrm = {} THEN <<I_ret>> ELSE <<I_push>>)
    IN  [i \in DOMAIN lines |-> AsmLine(a + i - 1, lines[i])]

GraphCFG(focus, edges, bg, split, kind) ==
    MakeCFG(GraphFunctions(split, kind),
            [a \in {BlockAddress(i) : i \in 1..NumBlocks} |->
                LET i == a \div BlockAddress(1)
                    es == IF i = focus THEN edges ELSE BackgroundEdges(i, bg)
                IN  [edges_out |-> es, asm_lines |-> AsmForEdges(a, es)]])

\* the block whose outgoing edges vary: one with a block before it
FocusBlock == NumBlocks - 1

GraphFamily ==
    {GraphCFG(FocusBlock, edges, bg, split, kind) :
        bg \in Backgrounds, split \in 1..NumBlocks, kind \in F2Kinds,
        edges \in SubsetsUpTo(PossibleEdges(FocusBlock), MaxEdges)}

\* ---- the token family: two blocks, the second possibly in an extern
\* function, holding at most MaxLines instructions in all
TokenInstructions == {I_ret, I_push}

TokenFunctions(ext) ==
    IF ext
    THEN {[address |-> BlockAddress(1), name |-> S_main, is_extern_function |-> FALSE,
           blocks |-> <<BlockAddress(1)>>],
          [address |-> BlockAddress(2), name |-> S_malloc_plt, is_extern_function |-> TRUE,
           blocks |-> <<BlockAddress(2)>>]}
    ELSE {[address |-> BlockAddress(1), name |-> S_main, is_extern_function |-> FALSE,
           blocks |-> <<BlockAddress(1), BlockAddress(2)>>]}

TokenCFG(ext, asm1, asm2) ==
    MakeCFG(TokenFunctions(ext),
            (BlockAddress(1) :>
                [edges_out |-> {CFGEdge(BlockAddress(1), BlockAddress(2), NORMAL)},
                 asm_lines |-> [i \in DOMAIN asm1 |-> AsmLine(BlockAddress(1) + i - 1, asm1[i])]])
            @@ (BlockAddress(2) :>
                [edges_out |-> {},
                 asm_lines |-> [i \in DOMAIN asm2 |-> AsmLine(BlockAddress(2) + i - 1, asm2[i])]]))

TokenFamily ==
    {TokenCFG(ext, p[1], p[2]) :
        ext \in BOOLEAN,
        p \in {q \in SeqsUpTo(TokenInstructions, MaxLines) \X SeqsUpTo(TokenInstructions, MaxLines) :
                    Len(q[1]) + Len(q[2]) <= MaxLines}}

\* the dictionaries a caller passes as using_tokens: empty, the dense result
\* of an earlier compaction, and dictionaries with ids of the caller's own
S_push_rax == S_push \o <<"_">> \o S_rax
TokenDicts ==
    {<<>>,
     (S_ret :> 0) @@ (S_push_rax :> 1),
     (S_ret :> DtypeMax(DtypeWidths[1])),
     (S_ret :> DtypeMax(DtypeWidths[1]) + 1)}

Normalizers ==
    {SafeNormalizer(INSTRUCTION_LEVEL), SafeNormalizer(OPCODE_LEVEL), BaseNormalizer(INSTRUCTION_LEVEL)}

(***************************************************************************)
(* AtomicData / AtomicTokenDict.  A token dictionary is a function from    *)
(* token strings to ids; the argument of an insertion (a dict in insertion *)
(* order) is a sequence of <<token, value>> pairs with distinct tokens.    *)
(***************************************************************************)
EmptyDict == <<>>

Keys(pairs) == [i \in DOMAIN pairs |-> pairs[i][1]]

\* update_tokens[t] = v on an insertion-ordered dict: a key already present
\* keeps its position and takes the new value
DictSet(pairs, t, v) ==
    IF t \in Range(Keys(pairs))
    THEN [i \in DOMAIN pairs |-> IF pairs[i][1] = t THEN <<t, v>> ELSE pairs[i]]
    ELSE Append(pairs, <<t, v>>)

\* a variant of update_atomic_tokens that gives a new token the id that
\* comes with it in update_tokens
RECURSIVE SetDefaultPairs(_, _)
SetDefaultPairs(d, pairs) ==
    IF pairs = <<>> THEN d
    ELSE SetDefaultPairs(IF Head(pairs)[1] \in DOMAIN d THEN d
                         ELSE d @@ (Head(pairs)[1] :> Head(pairs)[2]),
                         Tail(pairs))

update_atomic_tokens_given_ids(file_tokens, curr_data, update_tokens) ==
    SetDefaultPairs(file_tokens @@ curr_data, update_tokens)

\* a variant of update_atomic_tokens that leaves out curr_data.update(file_tokens)
update_atomic_tokens_without_file(file_tokens, curr_data, update_tokens) ==
    SetDefaultAll(curr_data, Keys(update_tokens))

\* curr_data.update(file_tokens); for t in update_tokens: curr_data.setdefault(t, len(curr_data))
update_atomic_tokens(file_tokens, curr_data, update_tokens) ==
    SetDefaultAll(file_tokens @@ curr_data, Keys(update_tokens))

\* the keys of a dictionary in the order of their ids: the insertion order
\* of a dictionary that was filled by setdefault(t, len(d))
KeysById(d) ==
    [i \in 1..Cardinality(DOMAIN d) |->
        CHOOSE t \in DOMAIN d : Cardinality({u \in DOMAIN d : d[u] < d[t]}) = i - 1]

\* max(new_asm_lines) of a list that is not empty
MaxOfSeq(s) == CHOOSE v \in Range(s) : \A u \in Range(s) : u <= v

\* update_memcfg_tokens(cfg_data, tokens) for a MemCFG with the dictionary
\* cfg_tokens and a plain dict tokens that is another object:
\* [error, tokens, cfg_tokens, asm_lines, dtype].  The new tokens are added
\* to tokens and the asm_lines are renumbered through old_to_new;
\* cfg_data.tokens is not assigned.
update_memcfg_tokens(cfg_tokens, asm_lines, tokens) ==
    LET new == SetDefaultAll(tokens, KeysById(cfg_tokens))
        old_to_new(v) == new[CHOOSE t \in DOMAIN cfg_tokens : cfg_tokens[t] = v]
        failed(exc) == [error |-> exc, tokens |-> new, cfg_tokens |-> cfg_tokens,
                        asm_lines |-> asm_lines, dtype |-> 0]
    IN  IF \E i \in DOMAIN asm_lines : asm_lines[i] \notin Range(cfg_tokens)
        THEN failed("KeyError")
        ELSE IF asm_lines = <<>>
        THEN failed("ValueError")
        ELSE LET new_asm_lines == [i \in DOMAIN asm_lines |-> old_to_new(asm_lines[i])]
                 w == get_smallest_np_dtype(MaxOfSeq(new_asm_lines))
             IN  IF w = 0 THEN failed("ValueError")
                 ELSE [error |-> "", tokens |-> new, cfg_tokens |-> cfg_tokens,
                       asm_lines |-> [i \in DOMAIN asm_lines |-> Store(new_asm_lines[i], w)],
                       dtype |-> w]

\* what an insertion method of AtomicTokenDict does before it calls
\* _atomic_update: [raised, update_tokens]; no call is made when it raised
\* or when update_tokens is empty
NoUpdate(exc) == [raised |-> exc, update_tokens |-> <<>>]
DoUpdate(pairs) == [raised |-> "", update_tokens |-> pairs]

\* AtomicTokenDict.__setitem__(key, value)
setitem(data, key, value) ==
    IF key \in DOMAIN data
    THEN NoUpdate(IF data[key] # value THEN "ValueError" ELSE "")
    ELSE DoUpdate(<< <<key, value>> >>)

\* AtomicTokenDict.update(tokens)
RECURSIVE UpdateLoop(_, _, _)
UpdateLoop(data, tokens, update_tokens) ==
    IF tokens = <<>> THEN DoUpdate(update_tokens)
    ELSE IF Head(tokens)[1] \in DOMAIN data
         THEN IF data[Head(tokens)[1]] # Head(tokens)[2]
              THEN NoUpdate("ValueError")
              ELSE UpdateLoop(data, Tail(tokens), update_tokens)
         ELSE UpdateLoop(data, Tail(tokens), DictSet(update_tokens, Head(tokens)[1], Head(tokens)[2]))

update(data, tokens) == UpdateLoop(data, tokens, <<>>)

\* AtomicTokenDict.setdefault(key, default): default is <<>> for None
setdefault(data, key, default) ==
    IF key \in DOMAIN data
    THEN NoUpdate("")
    ELSE DoUpdate(<< <<key, IF default = <<>> THEN Cardinality(DOMAIN data) ELSE default[1]>> >>)

\* AtomicTokenDict.addtokens(*tokens)
RECURSIVE AddTokensLoop(_, _, _)
AddTokensLoop(data, tokens, update_tokens) ==
    IF tokens = <<>> THEN DoUpdate(update_tokens)
    ELSE IF Head(tokens) \in DOMAIN data
         THEN AddTokensLoop(data, Tail(tokens), update_tokens)
         ELSE AddTokensLoop(data, Tail(tokens),
                            DictSet(update_tokens, Head(tokens),
                                    Cardinality(DOMAIN data) + Len(update_tokens)))

addtokens(data, tokens) == AddTokensLoop(data, tokens, <<>>)

\* the positional arguments of a call: a token string, or a set of them
StrArg(t) == [kind |-> "str", val |-> t]
SetArg(ts) == [kind |-> "set", val |-> ts]

\* AtomicTokenDict.addtokens(*tokens) on arguments of any kind: the test
\* `t not in self` looks t up in the dict self.data, which raises TypeError
\* for a set (unhashable) before anything is added
addtokens_call(data, args) ==
    IF \E i \in DOMAIN args : args[i].kind = "set"
    THEN NoUpdate("TypeError")
    ELSE addtokens(data, [i \in DOMAIN args |-> args[i].val])

\* a variant of CreateLockFile that never creates the lock file
CreateLockFile_never(exists) == FALSE

\* a variant of CreateLockFile that overwrites an existing lock file
CreateLockFile_overwrite(exists) == TRUE

\* atomic_write(lock_path, overwrite=False): TRUE when the lock file was
\* created, FALSE when FileExistsError was raised
CreateLockFile(exists) == ~exists

\* the inputs of the workers
AtomicTokens == {S_ret, S_nop, S_jmp}
InitDatas == {EmptyDict, (S_ret :> 0), (S_ret :> 1)}
GivenIds == {0, 7}
UpdateArgs == {<< <<S_ret, 0>>, <<S_nop, 1>> >>, << <<S_jmp, 7>> >>}
AddTokensArgs == {<<S_ret>>, <<S_nop, S_jmp>>, <<S_jmp, S_jmp>>}
Workers == 1..NumWorkers

(***************************************************************************)
(* CFG construction: add_function, _update_blocks, _prune_padding_nodes.   *)
(* A CFG under construction carries block_order, the insertion order of    *)
(* blocks_dict.  An edge handed to add_function is a tuple                 *)
(* (from address, to address, edge type), kept here as [tuple |-> <<..>>]. *)
(***************************************************************************)
EdgeTuple(from, to, type) == [tuple |-> <<from, to, type>>]
IsTuple(e) == "tuple" \in DOMAIN e

EmptyCFG ==
    [normalizer |-> NoNormalizer, functions_dict |-> <<>>, blocks_dict |-> <<>>,
     block_order |-> <<>>]

\* the first exception add_function raises while it enters the functions
\* funcs (a sequence) and their blocks into the dictionaries, "" if none
RECURSIVE AddError(_, _, _)
AddError(fkeys, bkeys, funcs) ==
    IF funcs = <<>> THEN ""
    ELSE IF Head(funcs).address \in fkeys THEN "ValueError"
    ELSE IF \E i \in DOMAIN Head(funcs).blocks :
                \/ Head(funcs).blocks[i].address \in bkeys
                \/ \E j \in 1..(i - 1) : Head(funcs).blocks[j].address = Head(funcs).blocks[i].address
         THEN "ValueError"
    ELSE AddError(fkeys \cup {Head(funcs).address},
                  bkeys \cup {Head(funcs).blocks[i].address : i \in DOMAIN Head(funcs).blocks},
                  Tail(funcs))

\* the loop of add_function over one function: functions_dict[func.address] = func,
\* block.parent_function = func and blocks_dict[block.address] = block
AddOne(c, func) ==
    [c EXCEPT
        !.functions_dict = @ @@ (func.address :>
            [address |-> func.address, name |-> func.name,
             is_extern_function |-> func.is_extern_function,
             blocks |-> [i \in DOMAIN func.blocks |-> func.blocks[i].address]]),
        !.blocks_dict = @ @@ [a \in {func.blocks[i].address : i \in DOMAIN func.blocks} |->
            LET b == CHOOSE x \in Range(func.blocks) : x.address = a
            IN  [address |-> a, parent_function |-> func.address,
                 edges_in |-> b.edges_in, edges_out |-> b.edges_out,
                 asm_lines |-> b.asm_lines]],
        !.block_order = @ \o [i \in DOMAIN func.blocks |-> func.blocks[i].address]]

RECURSIVE AddAll(_, _)
AddAll(c, funcs) ==
    IF funcs = <<>> THEN c ELSE AddAll(AddOne(c, Head(funcs)), Tail(funcs))

\* _update_blocks, first loop: the conversion of an entry of block.edges_out
ConvertOut(a, e) == IF IsTuple(e) THEN CFGEdge(a, e.tuple[2], e.tuple[3]) ELSE e
\* _update_blocks, second loop: the conversion of an entry of block.edges_in
ConvertIn(a, e) == IF IsTuple(e) THEN CFGEdge(e.tuple[1], a, e.tuple[3]) ELSE e

\* get_block raises ValueError for an address that is not in blocks_dict
UpdateError(bd) ==
    IF \E a \in DOMAIN bd :
            \/ \E e \in bd[a].edges_out : IsTuple(e) /\ e.tuple[2] \notin DOMAIN bd
            \/ \E e \in bd[a].edges_in : IsTuple(e) /\ e.tuple[1] \notin DOMAIN bd
    THEN "ValueError" ELSE ""

\* first loop: block.edges_out = set(converted); edge.to_block.edges_in.add(edge)
UpdateOut(bd) ==
    [a \in DOMAIN bd |->
        [bd[a] EXCEPT
            !.edges_out = {ConvertOut(a, e) : e \in @},
            !.edges_in = @ \cup {x \in UNION {{ConvertOut(b, e) : e \in bd[b].edges_out} : b \in DOMAIN bd} :
                                    x.to_block = a}]]

\* second loop: block.edges_in = set(converted); edge.from_block.edges_out.add(edge)
UpdateIn(bd) ==
    [a \in DOMAIN bd |->
        [bd[a] EXCEPT
            !.edges_in = {ConvertIn(a, e) : e \in @},
            !.edges_out = @ \cup {x \in UNION {{ConvertIn(b, e) : e \in bd[b].edges_in} : b \in DOMAIN bd} :
                                    x.from_block = a}]]

_update_blocks(bd) == UpdateIn(UpdateOut(bd))

\* add_function(*funcs): [error, cfg], cfg the CFG after a call that did not raise
SetBlocks(c, bd) == [c EXCEPT !.blocks_dict = bd]
AddChecked(c, added) ==
    IF UpdateError(added.blocks_dict) # ""
    THEN [error |-> UpdateError(added.blocks_dict), cfg |-> c]
    ELSE [error |-> "", cfg |-> SetBlocks(added, _update_blocks(added.blocks_dict))]

add_function(c, funcs) ==
    IF AddError(DOMAIN c.functions_dict, DOMAIN c.blocks_dict, funcs) # ""
    THEN [error |-> "ValueError", cfg |-> c]
    ELSE AddChecked(c, AddAll(c, funcs))

\* CFGBasicBlock.is_padding_node (a block without instructions is one)
is_padding_node(block) ==
    \A i \in DOMAIN block.asm_lines :
        StartsWith(StripLeadingWs(RawText(block.asm_lines[i].val)), S_nop)

\* a variant of remove_edge that leaves edges_in alone
remove_edge_out_only(block, edge) ==
    [block EXCEPT !.edges_out = @ \ {edge}]

\* CFGBasicBlock.remove_edge(edge) once its checks have passed
remove_edge(block, edge) ==
    [block EXCEPT !.edges_in = @ \ {edge}, !.edges_out = @ \ {edge}]

\* the edges in edges the block at x has after remove_edge(e) for each e of edges
RECURSIVE RemoveAll(_, _)
RemoveAll(block, edges) ==
    IF edges = {} THEN block
    ELSE RemoveAll(remove_edge(block, CHOOSE e \in edges : TRUE),
                   edges \ {CHOOSE e \in edges : TRUE})

AddOut(block, edges) == [block EXCEPT !.edges_out = @ \cup edges]
AddIn(block, edges) == [block EXCEPT !.edges_in = @ \cup edges]

\* the exception the pruning of padding block p raises, "" if none: more than
\* one edge out; an edge of p to itself, removed from the set of incoming
\* edges while the loop iterates over it; remove_edge of an edge that the
\* other block does not hold
PruneError(bd, p) ==
    IF Cardinality(bd[p].edges_out) > 1 THEN "ValueError"
    ELSE IF \E e \in bd[p].edges_in : e.from_block = p THEN "RuntimeError"
    ELSE IF \E e \in bd[p].edges_in :
                e \notin bd[e.from_block].edges_in /\ e \notin bd[e.from_block].edges_out
         THEN "ValueError"
    ELSE IF \E e \in bd[p].edges_out :
                e \notin bd[e.to_block].edges_in /\ e \notin bd[e.to_block].edges_out
         THEN "ValueError"
    ELSE ""

\* the loop over p's incoming edges: each one is re-pointed to the blocks of
\* nexts (the block p's one edge leads to, or none) and removed from its
\* from_block; then the loop over p's outgoing edges removes them from their to_block
ReEdge(bd, p, nexts) ==
    [x \in DOMAIN bd |->
        RemoveAll(
            AddIn(AddOut(bd[x],
                         {CFGEdge(x, n, e.edge_type) :
                            n \in nexts, e \in {i \in bd[p].edges_in : i.from_block = x}}),
                  IF x \in nexts
                  THEN {CFGEdge(e.from_block, x, e.edge_type) : e \in bd[p].edges_in}
                  ELSE {}),
            {e \in bd[p].edges_in : e.from_block = x}
                \cup {e \in bd[p].edges_out : e.to_block = x})]

\* del functions_dict[func.address]; func.address = new; functions_dict[new] = func
MoveFunction(fd, old, new) ==
    [k \in (DOMAIN fd \ {old}) \cup {new} |->
        IF k = new THEN [fd[old] EXCEPT !.address = new] ELSE fd[k]]

\* the blocks of the function keep pointing to the function object
MoveParent(bd, old, new) ==
    [x \in DOMAIN bd |->
        IF bd[x].parent_function = old THEN [bd[x] EXCEPT !.parent_function = new] ELSE bd[x]]

\* list.remove(x): the first occurrence goes
RECURSIVE ListRemove(_, _)
ListRemove(seq, x) ==
    IF seq = <<>> THEN <<>>
    ELSE IF Head(seq) = x THEN Tail(seq)
    ELSE <<Head(seq)>> \o ListRemove(Tail(seq), x)

LeaveFunction(fd, f, p) == [fd EXCEPT ![f].blocks = ListRemove(@, p)]

\* is_function_entry and next_block is not None and next_block.parent_function is func
EntryMoves(c, p, nexts) ==
    /\ p = c.functions_dict[c.blocks_dict[p].parent_function].address
    /\ \E n \in nexts : c.blocks_dict[n].parent_function = c.blocks_dict[p].parent_function

\* the body of the loop of _prune_padding_nodes for padding block p whose
\* edge out, if any, leads to the block of nexts
PruneOne(c, p, nexts) ==
    IF EntryMoves(c, p, nexts)
    THEN [c EXCEPT
            !.functions_dict = LeaveFunction(
                MoveFunction(@, c.blocks_dict[p].parent_function, CHOOSE n \in nexts : TRUE),
                CHOOSE n \in nexts : TRUE, p),
            !.blocks_dict = MoveParent(ReEdge(@, p, nexts), c.blocks_dict[p].parent_function,
                                       CHOOSE n \in nexts : TRUE)]
    ELSE [c EXCEPT
            !.functions_dict = LeaveFunction(@, c.blocks_dict[p].parent_function, p),
            !.blocks_dict = ReEdge(@, p, nexts)]

\* the loop over blocks_dict.values(): st is [error, cfg, remove], todo the
\* addresses still to visit
RECURSIVE PruneLoop(_, _)
PruneLoop(st, todo) ==
    IF todo = <<>> \/ st.error # "" THEN st
    ELSE IF ~is_padding_node(st.cfg.blocks_dict[Head(todo)]) THEN PruneLoop(st, Tail(todo))
    ELSE IF PruneError(st.cfg.blocks_dict, Head(todo)) # ""
         THEN [st EXCEPT !.error = PruneError(st.cfg.blocks_dict, Head(todo))]
    ELSE PruneLoop(
            [st EXCEPT
                !.cfg = PruneOne(@, Head(todo),
                                 {e.to_block : e \in st.cfg.blocks_dict[Head(todo)].edges_out}),
                !.remove = @ \cup {Head(todo)}],
            Tail(todo))

\* a variant of DeleteBlocks that leaves blocks_dict alone
DeleteBlocks_none(st) == [error |-> st.error, cfg |-> st.cfg]

\* for block in blocks_to_remove: del self.blocks_dict[block.address]
SelectSeq2(seq, S) == SelectSeq(seq, LAMBDA x : x \notin S)
DeleteBlocks(st) ==
    [error |-> st.error,
     cfg |-> [st.cfg EXCEPT
                !.blocks_dict = [a \in DOMAIN @ \ st.remove |-> @[a]],
                !.block_order = SelectSeq2(@, st.remove)]]

\* _prune_padding_nodes(): [error, cfg]
_prune_padding_nodes(c) ==
    DeleteBlocks(PruneLoop([error |-> "", cfg |-> c, remove |-> {}], c.block_order))

(***************************************************************************)
(* check_asm: the checks of a memory expression.  The immediates of a      *)
(* memory expression need up to 65 bits, so a Python int is held as a sign *)
(* and the hexadecimal digits of its magnitude, most significant first and *)
(* without leading zeros (<<>> is 0).                                      *)
(***************************************************************************)
RECURSIVE StripZeros(_)
StripZeros(ds) == IF ds # <<>> /\ Head(ds) = 0 THEN StripZeros(Tail(ds)) ELSE ds

\* imm_to_int(token) = int(token, 0) for the literals 0x... and -0x...
imm_to_wide(token) ==
    LET neg == token # <<>> /\ Head(token) = "-"
        body == IF neg THEN Tail(token) ELSE token
        mag == StripZeros([i \in 1..(Len(body) - 2) |-> CharVal(body[i + 2])])
    IN  [neg |-> neg /\ mag # <<>>, mag |-> mag]

\* int.bit_length of a magnitude
BitLength(mag) ==
    IF mag = <<>> THEN 0
    ELSE 4 * (Len(mag) - 1)
         + (IF mag[1] >= 8 THEN 4 ELSE IF mag[1] >= 4 THEN 3 ELSE IF mag[1] >= 2 THEN 2 ELSE 1)

\* mag = 2 ** k
IsPow2(mag, k) ==
    /\ BitLength(mag) = k + 1
    /\ mag[1] \in {1, 2, 4, 8}
    /\ \A i \in 2..Len(mag) : mag[i] = 0

\* val < -(2 ** k)
BelowMinusPow2(val, k) == val.neg /\ BitLength(val.mag) > k /\ ~IsPow2(val.mag, k)

\* val >= 2 ** k
AtLeastPow2(val, k) == ~val.neg /\ BitLength(val.mag) > k

\* val > 2 ** k
AbovePow2(val, k) == AtLeastPow2(val, k) /\ ~IsPow2(val.mag, k)

\* _fits_in_bits(val, bits, signed): signed also admits every value that
\* fits in bits bits unsigned
_fits_in_bits(val, bits, signed) ==
    IF signed
    THEN ~(BelowMinusPow2(val, bits - 1) \/ AtLeastPow2(val, bits))
    ELSE ~(val.neg \/ AtLeastPow2(val, bits))

S_mov == <<"m", "o", "v">>
S_movabs == <<"m", "o", "v", "a", "b", "s">>
S_lea == <<"l", "e", "a">>
S_eax == <<"e", "a", "x">>
S_ax == <<"a", "x">>
S_al == <<"a", "l">>
S_rbx == <<"r", "b", "x">>
S_rip == <<"r", "i", "p">>
S_cr0 == <<"c", "r", "0">>

\* those of MEMORY_ACCESS_GP_REGISTERS that the model uses
MEMORY_ACCESS_GP_REGISTERS == {S_rax, S_eax, S_ax, S_al, S_rbx}
DISPLACEMENT_64_OPCODES == {S_mov, S_movabs}
DISPLACEMENT_64_REGISTERS == {S_rax, S_eax, S_ax, S_al}

\* TOKEN_TO_REGEX_CHAR for the tokens of a memory expression
TOKEN_TO_REGEX_CHAR(name) ==
    CASE name = T_OPEN_BRACKET -> <<"[">>
      [] name = T_CLOSE_BRACKET -> <<"]">>
      [] name = T_PLUS_SIGN -> <<"+">>
      [] name = T_TIMES_SIGN -> <<"*">>
      [] name = T_IMMEDIATE -> <<"i">>
      [] name = T_REGISTER -> <<"r">>
      [] name = T_MEMORY_SIZE -> <<"m">>
      [] name = T_OPCODE -> <<"o">>
      [] name = T_INSTRUCTION_PREFIX -> <<"_">>
      [] name = T_BRANCH_PREDICTION -> <<"b">>
      [] name = T_INSTRUCTION_ADDRESS -> <<"a">>
      [] name = T_INSTRUCTION_START -> <<"x">>
      [] name = T_NEWLINE -> <<"|">>
      [] OTHER -> <<>>

\* the instruction, or a part of it, as the string the regexes match
InstrAsStr(toks) == Flatten([i \in DOMAIN toks |-> TOKEN_TO_REGEX_CHAR(toks[i].name)])

\* INSTRUCTION_MEMORY_ACCESS_TYPES_DICT: the kinds of the registers and
\* immediates of the memory access types [D], [B], [B + D], [I*S + D] and
\* [B + I*S + D]; <<>> for a string INSTRUCTION_MA_TYPES does not match
MemoryAccessInfo(memexpr_str) ==
    LET inner == IF memexpr_str # <<>> /\ Head(memexpr_str) = "m" THEN Tail(memexpr_str)
                 ELSE memexpr_str
        base == [r1 |-> "g", r2 |-> "g", i1 |-> "32", i2 |-> "32"]
    IN  CASE inner = <<"[", "i", "]">> -> <<[base EXCEPT !.i1 = "64"]>>
          [] inner = <<"[", "r", "]">> -> <<[base EXCEPT !.r1 = "r"]>>
          [] inner = <<"[", "r", "+", "i", "]">> -> <<[base EXCEPT !.r1 = "r"]>>
          [] inner = <<"[", "r", "*", "i", "+", "i", "]">> -> <<[base EXCEPT !.i1 = "s"]>>
          [] inner = <<"[", "r", "+", "r", "*", "i", "+", "i", "]">> -> <<[base EXCEPT !.i1 = "s"]>>
          [] OTHER -> <<>>

\* info_dict['r%d' % n], info_dict['i%d' % n]
RegisterKind(info, n) == IF n = 1 THEN info.r1 ELSE info.r2
ImmediateKind(info, n) == IF n = 1 THEN info.i1 ELSE info.i2

\* operands[0 if operands[0][0] == 'r' else 1][2][0][1]
OtherOperand(operands) ==
    (IF operands[1].ot = "r" THEN operands[1] ELSE operands[2]).toks[1].tok

\* the check of one register token of a memory expression
RegisterError(kind, token, opcode) ==
    IF kind = "g" /\ token \notin MEMORY_ACCESS_GP_REGISTERS /\ opcode # S_nop
    THEN "BadAssemblyError"
    ELSE IF kind = "r" /\ token \notin MEMORY_ACCESS_GP_REGISTERS /\ token # S_rip
    THEN "BadAssemblyError"
    ELSE ""

\* the check of one immediate token of a memory expression
ImmediateError(kind, immval, operands, opcode) ==
    IF kind = "32" /\ ~_fits_in_bits(immval, 32, TRUE)
    THEN IF ~(_fits_in_bits(immval, 64, FALSE) /\ AbovePow2(immval, 61))
         THEN "BadAssemblyError" ELSE ""
    ELSE IF kind = "s" /\ ~(~immval.neg /\ immval.mag \in {<<1>>, <<2>>, <<4>>, <<8>>})
    THEN "BadAssemblyError"
    ELSE IF kind = "64" /\ ~_fits_in_bits(immval, 32, TRUE)
    THEN IF ~_fits_in_bits(immval, 64, TRUE) THEN "BadAssemblyError"
         ELSE IF opcode \notin DISPLACEMENT_64_OPCODES THEN "BadAssemblyError"
         ELSE IF Len(operands) # 2 THEN "BadAssemblyError"
         ELSE IF OtherOperand(operands) \notin DISPLACEMENT_64_REGISTERS THEN "BadAssemblyError"
         ELSE ""
    ELSE ""

\* the loop of _check_mem_expr over the tokens of the operand
RECURSIVE CheckMemTokens(_, _, _, _, _, _)
CheckMemTokens(toks, info, num_registers, num_immediates, operands, opcode) ==
    IF toks = <<>> THEN ""
    ELSE IF Head(toks).name = T_REGISTER
    THEN IF RegisterError(RegisterKind(info, num_registers), Head(toks).tok, opcode) # ""
         THEN "BadAssemblyError"
         ELSE CheckMemTokens(Tail(toks), info, num_registers + 1, num_immediates, operands, opcode)
    ELSE IF Head(toks).name = T_IMMEDIATE
    THEN IF ImmediateError(ImmediateKind(info, num_immediates), imm_to_wide(Head(toks).tok),
                           operands, opcode) # ""
         THEN "BadAssemblyError"
         ELSE CheckMemTokens(Tail(toks), info, num_registers, num_immediates + 1, operands, opcode)
    ELSE CheckMemTokens(Tail(toks), info, num_registers, num_immediates, operands, opcode)

\* _check_mem_expr(memexpr_str, operands, opcode, op_token_list, ...): the
\* error raised, "" if none
_check_mem_expr(operands, opcode, op_token_list) ==
    IF MemoryAccessInfo(InstrAsStr(op_token_list)) = <<>> THEN "BadAssemblyError"
    ELSE CheckMemTokens(op_token_list, MemoryAccessInfo(InstrAsStr(op_token_list))[1],
                        1, 1, operands, opcode)

\* the loop of _check_instruction over the memory operands
CheckMemOperands(operands, opcode) ==
    IF \E i \in DOMAIN operands :
            operands[i].ot = "m" /\ _check_mem_expr(operands, opcode, operands[i].toks) # ""
    THEN "BadAssemblyError" ELSE ""

(***************************************************************************)
(* Compressed statistics of a normalized CFG: get_compressed_stats returns *)
(* bytes; the model keeps next to them the counts the bytes were made of.  *)
(***************************************************************************)
NODE_SIZE_HIST_BINS ==
    <<0, 1, 2, 3, 4, 5, 6, 7, 8, 9, 10, 12, 14, 16, 18, 20, 25, 30, 35, 40, 50, 60, 80, 100, 150, 200>>
FUNCTION_DEGREE_HIST_BINS ==
    <<0, 1, 2, 3, 4, 5, 6, 7, 8, 9, 10, 12, 14, 16, 18, 20, 25, 30, 35, 40, 50, 60, 80, 100, 150, 200>>
FUNCTION_SIZE_HIST_BINS ==
    <<0, 1, 2, 3, 4, 6, 8, 10, 15, 20, 25, 30, 40, 60, 80, 100, 150, 200, 300, 400, 500>>
GLS_NBYTES == 4
RATIO_SCALE == 255

\* a variant of _get_single_byte_ratio that rounds down
_get_single_byte_ratio_floor(val, total) ==
    IF total = 0 THEN 0 ELSE (val * RATIO_SCALE) \div total

\* _get_single_byte_ratio(val, total): math.ceil(val / total * 255); the
\* double arithmetic yields the exact ceiling for the counts of a CFG
_get_single_byte_ratio(val, total) ==
    IF total = 0 THEN 0 ELSE (val * RATIO_SCALE + total - 1) \div total

\* np.digitize(v, bins, right=True) - 1: a value on an edge goes to the bin below
digitize_right(v, bins) == Cardinality({i \in DOMAIN bins : bins[i] < v}) - 1

\* np.digitize(v, bins, right=False) - 1
digitize(v, bins) == Cardinality({i \in DOMAIN bins : bins[i] <= v}) - 1

\* np.unique(binned, return_counts=True) as one count a bin
HistogramCounts(vals, bins) ==
    [i \in DOMAIN bins |-> Cardinality({k \in DOMAIN vals : digitize(vals[k], bins) = i - 1})]

\* the bytes written for the counts of a histogram over total values
RatioBytes(counts, total) == [i \in DOMAIN counts |-> _get_single_byte_ratio(counts[i], total)]

\* _get_single_byte_histogram(vals, bins, ret, curr_idx): [counts, total, bytes]
_get_single_byte_histogram(vals, bins) ==
    [counts |-> HistogramCounts(vals, bins), total |-> Len(vals),
     bytes |-> RatioBytes(HistogramCounts(vals, bins), Len(vals))]

\* _get_np_int_as_little_endian_list(GLS_DTYPE(v))
LittleEndian(v) == [i \in 1..GLS_NBYTES |-> (v \div Pow2(8 * (i - 1))) % Pow2(8)]

\* the number of normal edges in the set edges, 3 standing for any larger number
DegreeClass(edges) ==
    IF Cardinality({e \in edges : e.edge_type = NORMAL}) > 2 THEN 3
    ELSE Cardinality({e \in edges : e.edge_type = NORMAL})

\* in_0, in_1, in_2, in_other, out_0, out_1, out_2, out_other
DegreeCounts(c) ==
    [i \in 1..4 |-> Cardinality({a \in DOMAIN c.blocks_dict :
                                    DegreeClass(c.blocks_dict[a].edges_in) = i - 1})]
    \o [i \in 1..4 |-> Cardinality({a \in DOMAIN c.blocks_dict :
                                    DegreeClass(c.blocks_dict[a].edges_out) = i - 1})]

\* CFGFunction.num_fc_edges
num_fc_edges(c, f) ==
    SumSeq([i \in DOMAIN f.blocks |->
        Cardinality({e \in c.blocks_dict[f.blocks[i]].edges_in : e.edge_type = FUNCTION_CALL})
        + Cardinality({e \in c.blocks_dict[f.blocks[i]].edges_out : e.edge_type = FUNCTION_CALL})])

\* the keys of CFG.asm_counts with their repetitions: the tokens of the
\* blocks of each function in turn
AsmItems(c) ==
    Flatten([i \in DOMAIN functions(c) |->
        Flatten([j \in DOMAIN c.functions_dict[functions(c)[i]].blocks |->
            BlockTokens(c.blocks_dict[c.functions_dict[functions(c)[i]].blocks[j]])])])

\* token_counts[inv_token_dict[i]] for i in range(len(inv_token_dict))
TokenCounts(items, token_dict) ==
    [i \in 1..Cardinality(Range(token_dict)) |->
        Cardinality({k \in DOMAIN items : token_dict[items[k]] = i - 1})]

\* the part of get_compressed_stats after the token dictionary was updated
StatsWith(c, items, token_dict) ==
    IF \E i \in 0..(Cardinality(Range(token_dict)) - 1) : i \notin Range(token_dict)
    THEN [error |-> "KeyError", token_dict |-> token_dict]
    ELSE [error |-> "", token_dict |-> token_dict,
          graph_level |-> LittleEndian(num_blocks(c))
                            \o LittleEndian(Cardinality(DOMAIN c.functions_dict))
                            \o LittleEndian(cfg_num_asm_lines(c)),
          degree |-> [counts |-> DegreeCounts(c), total |-> num_blocks(c),
                      bytes |-> RatioBytes(DegreeCounts(c), num_blocks(c))],
          node_size |-> _get_single_byte_histogram(
                [i \in 1..num_blocks(c) |-> Len(c.blocks_dict[blocks(c)[i]].asm_lines)],
                NODE_SIZE_HIST_BINS),
          function_degree |-> _get_single_byte_histogram(
                [i \in DOMAIN functions(c) |-> num_fc_edges(c, c.functions_dict[functions(c)[i]])],
                FUNCTION_DEGREE_HIST_BINS),
          function_size |-> _get_single_byte_histogram(
                [i \in DOMAIN functions(c) |-> Len(c.functions_dict[functions(c)[i]].blocks)],
                FUNCTION_SIZE_HIST_BINS),
          asm |-> [counts |-> TokenCounts(items, token_dict), total |-> Len(items),
                   bytes |-> RatioBytes(TokenCounts(items, token_dict), Len(items))]]

\* CFG.get_compressed_stats(tokens)
get_compressed_stats(c, toks) == StatsWith(c, AsmItems(c), SetDefaultAll(toks, AsmItems(c)))

(***************************************************************************)
(* State                                                                   *)
(***************************************************************************)
VARIABLES
    cfg,        \* the CFG as parsed (unnormalized)
    ncfg,       \* its normalized copy, NoCFG before normalize_cfg_data ran
    tokens,     \* the token dictionary passed as using_tokens
    memcfg,     \* the MemCFG built from ncfg, NoMemCFG before
    error,      \* the exception the last operation raised, "" if none
    ret,        \* what the last reader call returned
    ncompact,   \* number of MemCFG constructions so far
    file_exists,    \* whether the pickle file at filepath exists
    file_data,      \* the dictionary pickled in it
    lock_exists,    \* whether the lock file at lock_path exists
    data,           \* per worker: AtomicData.data, its view of the dictionary
    lock,           \* per worker: whether AtomicData._lock is set
    op,             \* per worker: the AtomicData method it is in, "" if none
    pc,             \* per worker: its position in that method
    update_tokens,  \* per worker: the argument of its _atomic_update
    file_tokens,    \* per worker: what its _locked_read returned
    raised,         \* per worker: the exception its last call raised, "" if none
    nops,           \* number of calls made so far
    assigned,       \* history: every <<token, id>> the file or a view has held
    todo,           \* the functions the caller has still to pass to add_function
    arg             \* the argument of the call of a function without state

cfgVars == <<cfg, ncfg, tokens, memcfg, error, ret, ncompact>>
atomicVars == <<file_exists, file_data, lock_exists, data, lock, op, pc,
                update_tokens, file_tokens, raised, nops, assigned>>
inputVars == <<todo, arg>>
vars == <<cfgVars, atomicVars, inputVars>>

NoCFG == [kind |-> "none"]
NoRet == [op |-> "none"]
NoArg == [op |-> "none"]

\* no function is waiting to be added and no call is being made
InputIdle ==
    /\ todo = <<>>
    /\ arg = NoArg

\* normalize_cfg_data(cfg, normalizer=n)
NormalizeCFG(n) ==
    /\ ncfg = NoCFG
    /\ ncfg' = normalize_cfg_data(cfg, n)
    /\ UNCHANGED <<cfg, tokens, memcfg, error, ret, ncompact>>
    /\ UNCHANGED <<atomicVars, inputVars>>

\* the assignments a MemCFG construction with result r makes
SetCompacted(r) ==
    /\ tokens' = r.tokens
    /\ memcfg' = r.mem
    /\ error' = r.error

\* MemCFG(ncfg, using_tokens=tokens)
Compact ==
    /\ ncfg # NoCFG
    /\ memcfg = NoMemCFG
    /\ error = ""
    /\ SetCompacted(MemCFG(ncfg, tokens))
    /\ ncompact' = ncompact + 1
    /\ UNCHANGED <<cfg, ncfg, ret>>
    /\ UNCHANGED <<atomicVars, inputVars>>

\* memcfg.get_block_edges_out(b, ret_edge_types=True)
GetBlockEdgesOut(b) ==
    /\ memcfg # NoMemCFG
    /\ ret' = [op |-> "get_block_edges_out", block |-> b, out |-> get_block_edges_out(memcfg, b)]
    /\ UNCHANGED <<cfg, ncfg, tokens, memcfg, error, ncompact>>
    /\ UNCHANGED <<atomicVars, inputVars>>

\* what np.empty may hold at a position that is never assigned
UninitValues == {0, 1, 2}

\* memcfg.get_edge_values(): the positions that the loop did not assign hold
\* whatever np.empty left there
GetEdgeValues ==
    /\ memcfg # NoMemCFG
    /\ \E r \in {get_edge_values(memcfg)} :
        \E fill \in [DOMAIN r.out \ r.written -> UninitValues] :
            ret' = [op |-> "get_edge_values", error |-> r.error,
                    out |-> [i \in DOMAIN r.out |->
                                IF i \in r.written THEN r.out[i] ELSE fill[i]]]
    /\ UNCHANGED <<cfg, ncfg, tokens, memcfg, error, ncompact>>
    /\ UNCHANGED <<atomicVars, inputVars>>

\* memcfg.get_coo_indices()
GetCooIndices ==
    /\ memcfg # NoMemCFG
    /\ ret' = [op |-> "get_coo_indices", out |-> get_coo_indices(memcfg)]
    /\ UNCHANGED <<cfg, ncfg, tokens, memcfg, error, ncompact>>
    /\ UNCHANGED <<atomicVars, inputVars>>

\* normalizer.normalize(line, cfg=memcfg, block=b) for every instruction of block b
NormalizeInMemCFG(n, b) ==
    /\ memcfg # NoMemCFG
    /\ ret' = [op |-> "normalize", block |-> b,
               out |-> [i \in DOMAIN cfg.blocks_dict[blocks(cfg)[b + 1]].asm_lines |->
                            normalize(n, cfg.blocks_dict[blocks(cfg)[b + 1]].asm_lines[i].val,
                                      MemCFGContext(memcfg, b)).sentence]]
    /\ UNCHANGED <<cfg, ncfg, tokens, memcfg, error, ncompact>>
    /\ UNCHANGED <<atomicVars, inputVars>>

\* no worker has opened the token dictionary file
AtomicIdle ==
    /\ file_exists = FALSE
    /\ file_data = EmptyDict
    /\ lock_exists = FALSE
    /\ data = [w \in Workers |-> EmptyDict]
    /\ lock = [w \in Workers |-> FALSE]
    /\ op = [w \in Workers |-> ""]
    /\ pc = [w \in Workers |-> "new"]
    /\ update_tokens = [w \in Workers |-> <<>>]
    /\ file_tokens = [w \in Workers |-> EmptyDict]
    /\ raised = [w \in Workers |-> ""]
    /\ nops = 0
    /\ assigned = {}

InitGraph ==
    /\ AtomicIdle
    /\ InputIdle
    /\ cfg \in GraphFamily
    /\ ncfg = NoCFG
    /\ tokens = <<>>
    /\ memcfg = NoMemCFG
    /\ error = ""
    /\ ret = NoRet
    /\ ncompact = 0

NextGraph ==
    \/ NormalizeCFG(SafeNormalizer(INSTRUCTION_LEVEL))
    \/ Compact
    \/ \E b \in 0..(NumBlocks - 1) : GetBlockEdgesOut(b)
    \/ \E b \in 0..(NumBlocks - 1) : NormalizeInMemCFG(SafeNormalizer(INSTRUCTION_LEVEL), b)

Spec == InitGraph /\ [][NextGraph]_vars

\* the edge arrays read from the MemCFG of a CFG of the graph family
NextEdges ==
    \/ NormalizeCFG(SafeNormalizer(INSTRUCTION_LEVEL))
    \/ Compact
    \/ GetEdgeValues
    \/ GetCooIndices

SpecEdges == InitGraph /\ [][NextEdges]_vars

\* ---- MemCFG(data, normalizer=n, using_tokens=tokens) for the CFG as parsed,
\* its normalized copy, or a MemCFG in the place of the CFG
CompactSources == {"cfg", "ncfg", "memcfg"}
CompactNormalizers == {NoNormalizer, SafeNormalizer(INSTRUCTION_LEVEL)}

NewMemCFG(src, n) ==
    /\ error = ""
    /\ src = "cfg" => memcfg = NoMemCFG
    /\ src = "ncfg" => (ncfg # NoCFG /\ memcfg = NoMemCFG)
    /\ src = "memcfg" => (memcfg # NoMemCFG /\ ret.op # "MemCFG")
    /\ \E r \in {MemCFG_init(IF src = "cfg" THEN cfg ELSE IF src = "ncfg" THEN ncfg ELSE memcfg,
                              n, tokens)} :
           /\ tokens' = r.tokens
           /\ error' = r.error
           /\ memcfg' = IF r.error = "" THEN r.mem ELSE memcfg
    /\ ret' = [op |-> "MemCFG", src |-> src, normalizer |-> n]
    /\ ncompact' = ncompact + 1
    /\ UNCHANGED <<cfg, ncfg>>
    /\ UNCHANGED <<atomicVars, inputVars>>

NextCompact ==
    \/ NormalizeCFG(SafeNormalizer(INSTRUCTION_LEVEL))
    \/ \E src \in CompactSources, n \in CompactNormalizers : NewMemCFG(src, n)

SpecCompact == InitGraph /\ [][NextCompact]_vars

\* the caller turns to the next CFG, keeping the token dictionary
NextCFG ==
    /\ memcfg # NoMemCFG
    /\ ncompact < MaxCompactions
    /\ cfg' \in TokenFamily
    /\ ncfg' = NoCFG
    /\ memcfg' = NoMemCFG
    /\ ret' = NoRet
    /\ UNCHANGED <<tokens, error, ncompact>>
    /\ UNCHANGED <<atomicVars, inputVars>>

InitTokens ==
    /\ AtomicIdle
    /\ InputIdle
    /\ cfg \in TokenFamily
    /\ ncfg = NoCFG
    /\ tokens \in TokenDicts
    /\ memcfg = NoMemCFG
    /\ error = ""
    /\ ret = NoRet
    /\ ncompact = 0

NextTokens ==
    \/ \E n \in Normalizers : NormalizeCFG(n)
    \/ Compact
    \/ NextCFG

SpecTokens == InitTokens /\ [][NextTokens]_vars

\* the dictionaries of the MemCFGs whose tokens are updated, and the
\* dictionaries they are updated with: all filled by setdefault(t, len(d))
OwnDicts == {<<>>, (S_push_rax :> 0)}
OtherDicts ==
    {<<>>,
     (S_ret :> 0) @@ (S_push_rax :> 1),
     (S_push_rax :> 0) @@ (S_ret :> 1),
     (S_nop :> 0)}

\* update_memcfg_tokens(memcfg, other), as normalize_cfg_data calls it for a
\* MemCFG that has the normalizer already: the asm_lines of the MemCFG are
\* replaced, its tokens stay the dictionary it was built with
UpdateMemcfgTokens(other) ==
    /\ memcfg # NoMemCFG
    /\ ret = NoRet
    /\ \E r \in {update_memcfg_tokens(tokens, memcfg.asm_lines, other)} :
        /\ ret' = [op |-> "update_memcfg_tokens", error |-> r.error, arg |-> other,
                   using_tokens |-> r.tokens, old_tokens |-> tokens,
                   old_asm_lines |-> memcfg.asm_lines]
        /\ memcfg' = IF r.error # "" THEN memcfg
                     ELSE [memcfg EXCEPT !.asm_lines = r.asm_lines, !.asm_lines_dtype = r.dtype]
        /\ tokens' = r.cfg_tokens
    /\ UNCHANGED <<cfg, ncfg, error, ncompact>>
    /\ UNCHANGED <<atomicVars, inputVars>>

InitRetoken ==
    /\ AtomicIdle
    /\ InputIdle
    /\ cfg \in TokenFamily
    /\ ncfg = NoCFG
    /\ tokens \in OwnDicts
    /\ memcfg = NoMemCFG
    /\ error = ""
    /\ ret = NoRet
    /\ ncompact = 0

NextRetoken ==
    \/ \E n \in Normalizers : NormalizeCFG(n)
    \/ Compact
    \/ \E other \in OtherDicts : UpdateMemcfgTokens(other)

SpecRetoken == InitRetoken /\ [][NextRetoken]_vars

(***************************************************************************)
(* The workers of the atomic token dictionary.  Each worker constructs its *)
(* AtomicTokenDict on the shared file and then makes calls on it; a call   *)
(* that takes the lock goes through the positions "enter" (in              *)
(* _AquireLock.__enter__), "body", "write" (atomic_update only, between    *)
(* its read and its write) and "exit" (in _AquireLock.__exit__).           *)
(***************************************************************************)
Pairs(d) == {<<t, d[t]>> : t \in DOMAIN d}

\* the history variable takes up what the file and the views hold next
Observe ==
    assigned' = assigned \cup Pairs(file_data') \cup UNION {Pairs(data'[w]) : w \in Workers}

\* AtomicTokenDict(init_data): AtomicData.__init__ calls atomic_read(default=init_data)
Construct(w) ==
    /\ pc[w] = "new"
    /\ op' = [op EXCEPT ![w] = "atomic_read"]
    /\ pc' = [pc EXCEPT ![w] = "enter"]
    /\ UNCHANGED <<file_exists, file_data, lock_exists, data, lock, update_tokens,
                   file_tokens, raised, nops, assigned>>
    /\ UNCHANGED <<cfgVars, inputVars>>

\* _AquireLock.__enter__: the attempt that creates the lock file; an attempt
\* that finds the lock file sleeps and leaves everything as it was
AquireLock_enter(w) ==
    /\ pc[w] = "enter"
    /\ CreateLockFile(lock_exists)
    /\ lock_exists' = TRUE
    /\ IF op[w] = "aquire_lock"
       THEN /\ lock' = [lock EXCEPT ![w] = TRUE]
            /\ op' = [op EXCEPT ![w] = ""]
            /\ pc' = [pc EXCEPT ![w] = "idle"]
       ELSE /\ pc' = [pc EXCEPT ![w] = "body"]
            /\ UNCHANGED <<lock, op>>
    /\ UNCHANGED <<file_exists, file_data, data, update_tokens, file_tokens, raised,
                   nops, assigned>>
    /\ UNCHANGED <<cfgVars, inputVars>>

\* a variant of the exit that leaves the lock file when the body raised
AquireLock_exit_on_success(w) ==
    /\ pc[w] = "exit"
    /\ lock_exists' = (raised[w] # "")
    /\ op' = [op EXCEPT ![w] = ""]
    /\ pc' = [pc EXCEPT ![w] = "idle"]
    /\ UNCHANGED <<file_exists, file_data, data, lock, update_tokens, file_tokens,
                   raised, nops, assigned>>
    /\ UNCHANGED <<cfgVars, inputVars>>

\* _AquireLock.__exit__: runs on every exit of the with block, also when the
\* body raised, and returns None, so that the exception goes on
AquireLock_exit(w) ==
    /\ pc[w] = "exit"
    /\ lock_exists' = FALSE
    /\ op' = [op EXCEPT ![w] = ""]
    /\ pc' = [pc EXCEPT ![w] = "idle"]
    /\ UNCHANGED <<file_exists, file_data, data, lock, update_tokens, file_tokens,
                   raised, nops, assigned>>
    /\ UNCHANGED <<cfgVars, inputVars>>

\* the body of atomic_read(default) under the lock
AtomicReadBody(w) ==
    /\ op[w] = "atomic_read" /\ pc[w] = "body"
    /\ \E default \in InitDatas :
            /\ data' = [data EXCEPT ![w] = IF file_exists THEN file_data ELSE default]
            /\ file_data' = IF file_exists THEN file_data ELSE default
    /\ file_exists' = TRUE
    /\ pc' = [pc EXCEPT ![w] = "exit"]
    /\ Observe
    /\ UNCHANGED <<lock_exists, lock, op, update_tokens, file_tokens, raised, nops>>
    /\ UNCHANGED <<cfgVars, inputVars>>

\* an insertion method of AtomicTokenDict, r what it worked out from the
\* worker's view: it raises, returns, or calls _atomic_update(update_tokens)
InsertionCall(w, r) ==
    /\ pc[w] = "idle"
    /\ nops < MaxOps
    /\ nops' = nops + 1
    /\ raised' = [raised EXCEPT ![w] = r.raised]
    /\ IF r.raised = "" /\ r.update_tokens # <<>>
       THEN /\ op' = [op EXCEPT ![w] = "atomic_update"]
            /\ pc' = [pc EXCEPT ![w] = "enter"]
            /\ update_tokens' = [update_tokens EXCEPT ![w] = r.update_tokens]
       ELSE UNCHANGED <<op, pc, update_tokens>>
    /\ UNCHANGED <<file_exists, file_data, lock_exists, data, lock, file_tokens, assigned>>
    /\ UNCHANGED <<cfgVars, inputVars>>

SetItem(w, key, value) == InsertionCall(w, setitem(data[w], key, value))
Update(w, toks) == InsertionCall(w, update(data[w], toks))
SetDefault(w, key, default) == InsertionCall(w, setdefault(data[w], key, default))
AddTokens(w, toks) == InsertionCall(w, addtokens(data[w], toks))

\* atomic_update under the lock: self._locked_read()
LockedRead(w) ==
    /\ op[w] = "atomic_update" /\ pc[w] = "body"
    /\ IF file_exists
       THEN /\ file_tokens' = [file_tokens EXCEPT ![w] = file_data]
            /\ pc' = [pc EXCEPT ![w] = "write"]
            /\ UNCHANGED <<raised, update_tokens>>
       ELSE /\ raised' = [raised EXCEPT ![w] = "FileNotFoundError"]
            /\ pc' = [pc EXCEPT ![w] = "exit"]
            /\ update_tokens' = [update_tokens EXCEPT ![w] = <<>>]
            /\ UNCHANGED file_tokens
    /\ UNCHANGED <<file_exists, file_data, lock_exists, data, lock, op, nops, assigned>>
    /\ UNCHANGED <<cfgVars, inputVars>>

\* atomic_update under the lock: self.data = update_func(file data, self.data,
\* update_tokens); self._locked_write()
LockedWrite(w) ==
    /\ op[w] = "atomic_update" /\ pc[w] = "write"
    /\ data' = [data EXCEPT ![w] = update_atomic_tokens(file_tokens[w], data[w], update_tokens[w])]
    /\ file_data' = data'[w]
    /\ file_exists' = TRUE
    /\ update_tokens' = [update_tokens EXCEPT ![w] = <<>>]
    /\ file_tokens' = [file_tokens EXCEPT ![w] = EmptyDict]
    /\ pc' = [pc EXCEPT ![w] = "exit"]
    /\ Observe
    /\ UNCHANGED <<lock_exists, lock, op, raised, nops>>
    /\ UNCHANGED <<cfgVars, inputVars>>

\* a call of an AtomicData method that starts by taking the lock
Begin(w, method) ==
    /\ pc[w] = "idle"
    /\ nops < MaxOps
    /\ nops' = nops + 1
    /\ raised' = [raised EXCEPT ![w] = ""]
    /\ op' = [op EXCEPT ![w] = method]
    /\ pc' = [pc EXCEPT ![w] = "enter"]
    /\ UNCHANGED <<file_exists, file_data, lock_exists, data, lock, update_tokens,
                   file_tokens, assigned>>
    /\ UNCHANGED <<cfgVars, inputVars>>

atomic_write(w) == Begin(w, "atomic_write")

\* the body of atomic_write under the lock
AtomicWriteBody(w) ==
    /\ op[w] = "atomic_write" /\ pc[w] = "body"
    /\ file_data' = data[w]
    /\ file_exists' = TRUE
    /\ pc' = [pc EXCEPT ![w] = "exit"]
    /\ UNCHANGED <<lock_exists, data, lock, op, update_tokens, file_tokens, raised,
                   nops, assigned>>
    /\ UNCHANGED <<cfgVars, inputVars>>

delete_file(w) == Begin(w, "delete_file")

\* the body of delete_file under the lock
DeleteFileBody(w) ==
    /\ op[w] = "delete_file" /\ pc[w] = "body"
    /\ file_data' = EmptyDict
    /\ file_exists' = FALSE
    /\ pc' = [pc EXCEPT ![w] = "exit"]
    /\ UNCHANGED <<lock_exists, data, lock, op, update_tokens, file_tokens, raised,
                   nops, assigned>>
    /\ UNCHANGED <<cfgVars, inputVars>>

\* atomic_read() without a default, as __setstate__ calls it
atomic_read(w) == Begin(w, "atomic_read_no_default")

\* the body of atomic_read() under the lock: FileNotFoundError is raised in
\* the with block when the file does not exist
AtomicReadNoDefault(w) ==
    /\ op[w] = "atomic_read_no_default" /\ pc[w] = "body"
    /\ IF file_exists
       THEN /\ data' = [data EXCEPT ![w] = file_data]
            /\ UNCHANGED raised
       ELSE /\ raised' = [raised EXCEPT ![w] = "FileNotFoundError"]
            /\ UNCHANGED data
    /\ pc' = [pc EXCEPT ![w] = "exit"]
    /\ UNCHANGED <<file_exists, file_data, lock_exists, lock, op, update_tokens,
                   file_tokens, nops>>
    /\ Observe
    /\ UNCHANGED <<cfgVars, inputVars>>

\* atomic_update(update_func) with an update_func that raises
atomic_update_raising(w) == Begin(w, "atomic_update_raising")

\* the body of atomic_update under the lock when update_func raises: the
\* exception of _locked_read() or of update_func leaves the with block
\* before self.data is assigned and before _locked_write()
UpdateFuncRaises(w) ==
    /\ op[w] = "atomic_update_raising" /\ pc[w] = "body"
    /\ raised' = [raised EXCEPT ![w] = IF file_exists THEN "UpdateFuncError"
                                                      ELSE "FileNotFoundError"]
    /\ pc' = [pc EXCEPT ![w] = "exit"]
    /\ UNCHANGED <<file_exists, file_data, lock_exists, data, lock, op, update_tokens,
                   file_tokens, nops, assigned>>
    /\ UNCHANGED <<cfgVars, inputVars>>

\* aquire_lock(): nothing happens when this object holds the lock already
aquire_lock(w) ==
    /\ pc[w] = "idle"
    /\ nops < MaxOps
    /\ nops' = nops + 1
    /\ raised' = [raised EXCEPT ![w] = ""]
    /\ IF lock[w]
       THEN UNCHANGED <<op, pc>>
       ELSE /\ op' = [op EXCEPT ![w] = "aquire_lock"]
            /\ pc' = [pc EXCEPT ![w] = "enter"]
    /\ UNCHANGED <<file_exists, file_data, lock_exists, data, lock, update_tokens,
                   file_tokens, assigned>>
    /\ UNCHANGED <<cfgVars, inputVars>>

\* release_lock(): ValueError without the lock; with it, self._lock.__exit__()
\* is called without the three arguments __exit__ requires, which raises
\* TypeError before the lock file is removed and before _lock is cleared
release_lock(w) ==
    /\ pc[w] = "idle"
    /\ nops < MaxOps
    /\ nops' = nops + 1
    /\ raised' = [raised EXCEPT ![w] = IF lock[w] THEN "TypeError" ELSE "ValueError"]
    /\ UNCHANGED <<file_exists, file_data, lock_exists, data, lock, op, pc,
                   update_tokens, file_tokens, assigned>>
    /\ UNCHANGED <<cfgVars, inputVars>>

InitAtomic ==
    /\ AtomicIdle
    /\ InputIdle
    /\ cfg = NoCFG
    /\ ncfg = NoCFG
    /\ tokens = <<>>
    /\ memcfg = NoMemCFG
    /\ error = ""
    /\ ret = NoRet
    /\ ncompact = 0

\* workers that insert tokens into one shared AtomicTokenDict
NextTokenDict ==
    \/ \E w \in Workers : Construct(w)
    \/ \E w \in Workers : AquireLock_enter(w)
    \/ \E w \in Workers : AtomicReadBody(w)
    \/ \E w \in Workers : LockedRead(w)
    \/ \E w \in Workers : LockedWrite(w)
    \/ \E w \in Workers : AquireLock_exit(w)
    \/ \E w \in Workers, key \in AtomicTokens, value \in GivenIds : SetItem(w, key, value)
    \/ \E w \in Workers, toks \in UpdateArgs : Update(w, toks)
    \/ \E w \in Workers, key \in AtomicTokens, default \in {<<>>} \cup {<<v>> : v \in GivenIds} :
            SetDefault(w, key, default)
    \/ \E w \in Workers, toks \in AddTokensArgs : AddTokens(w, toks)

SpecTokenDict == InitAtomic /\ [][NextTokenDict]_vars

\* workers that insert tokens by item assignment, update and setdefault with
\* a value of their own
NextInsert ==
    \/ \E w \in Workers : Construct(w)
    \/ \E w \in Workers : AquireLock_enter(w)
    \/ \E w \in Workers : AtomicReadBody(w)
    \/ \E w \in Workers : LockedRead(w)
    \/ \E w \in Workers : LockedWrite(w)
    \/ \E w \in Workers : AquireLock_exit(w)
    \/ \E w \in Workers, key \in AtomicTokens, value \in GivenIds : SetItem(w, key, value)
    \/ \E w \in Workers, toks \in UpdateArgs : Update(w, toks)
    \/ \E w \in Workers, key \in AtomicTokens, value \in GivenIds :
            SetDefault(w, key, <<value>>)

SpecInsert == InitAtomic /\ [][NextInsert]_vars

\* the atomic_read of a constructor with the init_data of AtomicTokenDict()
\* left at its default: the file it creates holds the empty dictionary
AtomicReadBodyEmpty(w) ==
    /\ AtomicReadBody(w)
    /\ ~file_exists => file_data' = EmptyDict

\* workers that insert tokens into a dictionary file that starts empty
NextDense ==
    \/ \E w \in Workers : Construct(w)
    \/ \E w \in Workers : AquireLock_enter(w)
    \/ \E w \in Workers : AtomicReadBodyEmpty(w)
    \/ \E w \in Workers : LockedRead(w)
    \/ \E w \in Workers : LockedWrite(w)
    \/ \E w \in Workers : AquireLock_exit(w)
    \/ \E w \in Workers, key \in AtomicTokens, value \in GivenIds : SetItem(w, key, value)
    \/ \E w \in Workers, toks \in UpdateArgs : Update(w, toks)
    \/ \E w \in Workers, key \in AtomicTokens, default \in {<<>>} \cup {<<v>> : v \in GivenIds} :
            SetDefault(w, key, default)
    \/ \E w \in Workers, toks \in AddTokensArgs : AddTokens(w, toks)

SpecDense == InitAtomic /\ [][NextDense]_vars

\* workers that make any call on one shared AtomicData
NextAtomicData ==
    \/ NextTokenDict
    \/ \E w \in Workers : atomic_write(w)
    \/ \E w \in Workers : AtomicWriteBody(w)
    \/ \E w \in Workers : delete_file(w)
    \/ \E w \in Workers : DeleteFileBody(w)
    \/ \E w \in Workers : aquire_lock(w)
    \/ \E w \in Workers : release_lock(w)
    \/ \E w \in Workers : atomic_read(w)
    \/ \E w \in Workers : AtomicReadNoDefault(w)
    \/ \E w \in Workers : atomic_update_raising(w)
    \/ \E w \in Workers : UpdateFuncRaises(w)

SpecAtomicData == InitAtomic /\ [][NextAtomicData]_vars

\* a worker that writes again and again: a call of atomic_write that the
\* bound on the number of calls leaves out
atomic_write_again(w) ==
    /\ pc[w] = "idle"
    /\ raised' = [raised EXCEPT ![w] = ""]
    /\ op' = [op EXCEPT ![w] = "atomic_write"]
    /\ pc' = [pc EXCEPT ![w] = "enter"]
    /\ UNCHANGED <<file_exists, file_data, lock_exists, data, lock, update_tokens,
                   file_tokens, nops, assigned>>
    /\ UNCHANGED <<cfgVars, inputVars>>

\* workers that construct their AtomicData and then write without end, or
\* take the lock themselves
NextPoll ==
    \/ \E w \in Workers : Construct(w)
    \/ \E w \in Workers : AquireLock_enter(w)
    \/ \E w \in Workers : AtomicReadBody(w)
    \/ \E w \in Workers : AquireLock_exit(w)
    \/ \E w \in Workers : atomic_write_again(w)
    \/ \E w \in Workers : AtomicWriteBody(w)
    \/ \E w \in Workers : aquire_lock(w)
    \/ \E w \in Workers : release_lock(w)

\* a worker under the lock goes on to the end of its with block; a worker in
\* __enter__ tries again every AQUIRE_LOCK_FAIL_WAIT_TIME_SECONDS, up to
\* 2**100 times, so it gets a lock file that stays absent.  An attempt is
\* made at the times the sleep ends, whatever the lock file was in between:
\* nothing makes an attempt fall on a moment at which the file is absent.
FairPoll ==
    \A w \in Workers :
        /\ WF_vars(AquireLock_enter(w))
        /\ WF_vars(AtomicReadBody(w))
        /\ WF_vars(AtomicWriteBody(w))
        /\ WF_vars(AquireLock_exit(w))

SpecPoll == InitAtomic /\ [][NextPoll]_vars /\ FairPoll

(***************************************************************************)
(* Construction of a CFG from parsed data.  The parser hands the functions *)
(* with their blocks to add_function, the edges as tuples of addresses     *)
(* held by the block they leave, by the block they enter, or by both; a    *)
(* caller may add the second function after the constructor returned.      *)
(***************************************************************************)
I_nop == <<Tok(T_OPCODE, S_nop)>>

\* the edges of the parsed data: a normal edge between any two blocks, one
\* from the second block to itself, and a call from the last block to the first
BuildEdges ==
    {<<BlockAddress(p[1]), BlockAddress(p[2]), NORMAL>> :
        p \in {q \in (1..NumBlocks) \X (1..NumBlocks) : q[1] # q[2] \/ q[1] = NumBlocks - 1}}
        \cup {<<BlockAddress(NumBlocks), BlockAddress(1), FUNCTION_CALL>>}

Placements == {"out", "in", "both"}

TuplesOf(edges) == {EdgeTuple(e[1], e[2], e[3]) : e \in edges}

\* block i as the parser builds it; the blocks of pads hold a nop only
BuildBlock(i, pads, edges, place) ==
    [address |-> BlockAddress(i),
     edges_out |-> IF place = "in" THEN {}
                   ELSE TuplesOf({e \in edges : e[1] = BlockAddress(i)}),
     edges_in |-> IF place = "out" THEN {}
                  ELSE TuplesOf({e \in edges : e[2] = BlockAddress(i)}),
     asm_lines |-> <<AsmLine(BlockAddress(i), IF i \in pads THEN I_nop ELSE I_push)>>]

\* the functions of the parsed data: the first split blocks in one function,
\* the others, if any, in a second one
BuildFunctions(split, pads, edges, place) ==
    <<[address |-> BlockAddress(1), name |-> S_main, is_extern_function |-> FALSE,
       blocks |-> [i \in 1..split |-> BuildBlock(i, pads, edges, place)]]>>
    \o (IF split = NumBlocks THEN <<>>
        ELSE <<[address |-> BlockAddress(split + 1), name |-> S_helper,
                is_extern_function |-> FALSE,
                blocks |-> [i \in 1..(NumBlocks - split) |->
                                BuildBlock(split + i, pads, edges, place)]]>>)

\* the calls of add_function to come: one for all functions, or one a function
Batches(funcs, later) ==
    IF later THEN [i \in DOMAIN funcs |-> <<funcs[i]>>] ELSE <<funcs>>

\* how the parser holds the edges, and whether the functions come one by one
Styles ==
    {[place |-> p, later |-> FALSE] : p \in Placements}
        \cup {[place |-> "out", later |-> TRUE]}

BuildFamily ==
    {Batches(BuildFunctions(split, pads, edges, style.place), style.later) :
        split \in 1..NumBlocks, pads \in SubsetsUpTo(1..NumBlocks, MaxBuildEdges),
        edges \in SubsetsUpTo(BuildEdges, MaxBuildEdges), style \in Styles}

\* the assignments a construction step with result r ([error, cfg]) makes; a
\* caller that gets an exception does not use the CFG any further
SetBuilt(r) ==
    /\ error' = r.error
    /\ cfg' = IF r.error = "" THEN r.cfg ELSE NoCFG
    /\ todo' = IF r.error = "" THEN Tail(todo) ELSE <<>>

\* _prune_padding_nodes() after a parse_cfg_data that returned
PruneParsed(r) == IF r.error = "" THEN _prune_padding_nodes(r.cfg) ELSE r

\* CFG(data): parse_cfg_data calls add_function once, then the padding nodes go
NewCFG ==
    /\ cfg = NoCFG
    /\ todo # <<>>
    /\ SetBuilt(PruneParsed(add_function(EmptyCFG, Head(todo))))
    /\ UNCHANGED <<ncfg, tokens, memcfg, ret, ncompact, arg>>
    /\ UNCHANGED atomicVars

\* cfg.add_function(*funcs) on the constructed CFG
AddFunction ==
    /\ cfg # NoCFG
    /\ todo # <<>>
    /\ SetBuilt(add_function(cfg, Head(todo)))
    /\ UNCHANGED <<ncfg, tokens, memcfg, ret, ncompact, arg>>
    /\ UNCHANGED atomicVars

InitBuild ==
    /\ AtomicIdle
    /\ arg = NoArg
    /\ todo \in BuildFamily
    /\ cfg = NoCFG
    /\ ncfg = NoCFG
    /\ tokens = <<>>
    /\ memcfg = NoMemCFG
    /\ error = ""
    /\ ret = NoRet
    /\ ncompact = 0

NextBuild ==
    \/ NewCFG
    \/ AddFunction

SpecBuild == InitBuild /\ [][NextBuild]_vars

(***************************************************************************)
(* Calls of functions without state: arg is the call, ret what it returns. *)
(***************************************************************************)
\* the assignments of a call that returns out
Returns(out) ==
    /\ ret = NoRet
    /\ ret' = [op |-> arg.op, out |-> out]
    /\ UNCHANGED <<cfg, ncfg, tokens, memcfg, error, ncompact, todo, arg>>
    /\ UNCHANGED atomicVars

\* no CFG is under work
CFGIdle ==
    /\ cfg = NoCFG
    /\ ncfg = NoCFG
    /\ tokens = <<>>
    /\ memcfg = NoMemCFG
    /\ error = ""
    /\ ret = NoRet
    /\ ncompact = 0

\* ---- normalize(*strings, newline_tup=...): the strings hold at most
\* MaxTokens tokens in all, in one string or one token a string
S_open == <<"[">>
S_close == <<"]">>
BracketTokens ==
    {Tok(T_OPCODE, S_push), Tok(T_REGISTER, S_rax), Tok(T_OPEN_BRACKET, S_open),
     Tok(T_CLOSE_BRACKET, S_close), Tok(T_NEWLINE, <<"\n">>),
     Tok(T_INSTRUCTION_START, INSTRUCTION_START_TOKEN)}

NormalizeArgs ==
    {[op |-> "normalize", normalizer |-> n, newline_tup |-> nl,
      strings |-> IF one THEN <<toks>> ELSE [i \in DOMAIN toks |-> <<toks[i]>>]] :
        n \in {BaseNormalizer(INSTRUCTION_LEVEL), SafeNormalizer(OPCODE_LEVEL)},
        nl \in {DEFAULT_NEWLINE_TUPLE, <<>>}, one \in BOOLEAN,
        toks \in SeqsUpTo(BracketTokens, MaxTokens)}

\* normalizer.normalize(*strings, newline_tup=newline_tup)
NormalizeCall ==
    /\ arg.op = "normalize"
    /\ Returns(normalize_strings(arg.normalizer, arg.strings, arg.newline_tup))

InitNormalize ==
    /\ AtomicIdle
    /\ CFGIdle
    /\ todo = <<>>
    /\ arg \in NormalizeArgs

NextNormalize == NormalizeCall

SpecNormalize == InitNormalize /\ [][NextNormalize]_vars

\* ---- the statistics of the CFGs of the graph family, for an empty token
\* dictionary and for one that holds a token no CFG has
\* CFG.get_compressed_stats(tokens) with an AtomicTokenDict whose view and
\* file hold toks: token_dict.addtokens({k for k in token_counts if k not in
\* token_dict}) passes the set as one argument; the tokens it works out are
\* added by update_atomic_tokens under the lock
get_compressed_stats_atomic(c, toks) ==
    LET r == addtokens_call(toks, <<SetArg({k \in Range(AsmItems(c)) : k \notin DOMAIN toks})>>)
    IN  IF r.raised # "" THEN [error |-> r.raised, token_dict |-> toks]
        ELSE StatsWith(c, AsmItems(c),
                       IF r.update_tokens = <<>> THEN toks
                       ELSE update_atomic_tokens(toks, toks, r.update_tokens))

StatsDicts == {<<>>, (S_nop :> 0)}

\* ncfg.get_compressed_stats(AtomicTokenDict(tokens)), and what the call
\* gives with the plain dict tokens
GetCompressedStatsAtomic ==
    /\ ncfg # NoCFG
    /\ ret = NoRet
    /\ \E r \in {get_compressed_stats_atomic(ncfg, tokens)} :
        /\ ret' = [op |-> "get_compressed_stats_atomic", out |-> r,
                   plain |-> get_compressed_stats(ncfg, tokens)]
        /\ tokens' = r.token_dict
    /\ UNCHANGED <<cfg, ncfg, memcfg, error, ncompact>>
    /\ UNCHANGED <<atomicVars, inputVars>>

\* ncfg.get_compressed_stats(tokens)
GetCompressedStats ==
    /\ ncfg # NoCFG
    /\ ret = NoRet
    /\ ret' = [op |-> "get_compressed_stats", out |-> get_compressed_stats(ncfg, tokens)]
    /\ tokens' = get_compressed_stats(ncfg, tokens).token_dict
    /\ UNCHANGED <<cfg, ncfg, memcfg, error, ncompact>>
    /\ UNCHANGED <<atomicVars, inputVars>>

InitStats ==
    /\ AtomicIdle
    /\ InputIdle
    /\ cfg \in GraphFamily
    /\ ncfg = NoCFG
    /\ tokens \in StatsDicts
    /\ memcfg = NoMemCFG
    /\ error = ""
    /\ ret = NoRet
    /\ ncompact = 0

NextStats ==
    \/ NormalizeCFG(SafeNormalizer(INSTRUCTION_LEVEL))
    \/ GetCompressedStats

SpecStats == InitStats /\ [][NextStats]_vars

NextStatsAtomic ==
    \/ NormalizeCFG(SafeNormalizer(INSTRUCTION_LEVEL))
    \/ GetCompressedStatsAtomic

SpecStatsAtomic == InitStats /\ [][NextStatsAtomic]_vars

\* ---- _get_single_byte_ratio(val, total) for 0 <= val <= total <= MaxTotal
RatioArgs ==
    {[op |-> "_get_single_byte_ratio", val |-> p[1], total |-> p[2]] :
        p \in {q \in (0..MaxTotal) \X (0..MaxTotal) : q[1] <= q[2]}}

RatioCall ==
    /\ arg.op = "_get_single_byte_ratio"
    /\ Returns(_get_single_byte_ratio(arg.val, arg.total))

InitRatio ==
    /\ AtomicIdle
    /\ CFGIdle
    /\ todo = <<>>
    /\ arg \in RatioArgs

NextRatio == RatioCall

SpecRatio == InitRatio /\ [][NextRatio]_vars

\* ---- _check_mem_expr for instructions with one memory operand whose
\* displacement is a hexadecimal literal of 8, 9, 16 or 17 digits
HexHeads == {"1", "2", "7", "8", "f"}
HexFills == {"0", "f"}
HexTails == {"0", "1", "f"}
HexLens == {8, 9, 16, 17}

\* 0x, head, n - 2 times fill, last
HexLiteral(head, fill, n, last) == <<"0", "x", head>> \o [i \in 1..(n - 2) |-> fill] \o <<last>>

Displacements ==
    UNION {{HexLiteral(q[1], q[2], q[3], q[4]), <<"-">> \o HexLiteral(q[1], q[2], q[3], q[4])} :
                q \in HexHeads \X HexFills \X HexLens \X HexTails}

\* the tokens of the memory operands [D], [B + D], [I*S + D] with a
\* displacement d
MemOperands(d) ==
    {<<Tok(T_OPEN_BRACKET, S_open), Tok(T_IMMEDIATE, d), Tok(T_CLOSE_BRACKET, S_close)>>}
    \cup {<<Tok(T_OPEN_BRACKET, S_open), Tok(T_REGISTER, r), Tok(T_PLUS_SIGN, <<"+">>),
            Tok(T_IMMEDIATE, d), Tok(T_CLOSE_BRACKET, S_close)>> : r \in {S_rbx, S_rip, S_cr0}}
    \cup {<<Tok(T_OPEN_BRACKET, S_open), Tok(T_REGISTER, S_rbx), Tok(T_TIMES_SIGN, <<"*">>),
            Tok(T_IMMEDIATE, sc), Tok(T_PLUS_SIGN, <<"+">>),
            Tok(T_IMMEDIATE, d), Tok(T_CLOSE_BRACKET, S_close)>> : sc \in {<<"0", "x", "4">>, <<"0", "x", "3">>}}

RegOperand(r) == [ot |-> "r", toks |-> <<Tok(T_REGISTER, r)>>]
MemOperand(toks) == [ot |-> "m", toks |-> toks]

\* the operand lists: the memory operand alone, before or after a register,
\* and between two registers
OperandLists(m) ==
    {<<MemOperand(m)>>, <<RegOperand(S_al), MemOperand(m), RegOperand(S_al)>>}
    \cup UNION {{<<RegOperand(r), MemOperand(m)>>, <<MemOperand(m), RegOperand(r)>>} :
                    r \in {S_al, S_rbx}}

\* the calls with the displacement d
CheckArgs(d) ==
    UNION {{[op |-> "_check_mem_expr", opcode |-> o, operands |-> ops, disp |-> d] :
                o \in {S_mov, S_movabs, S_lea}, ops \in OperandLists(m)} :
            m \in MemOperands(d)}

\* the checks of the memory operands of _check_instruction
CheckMemExprCall ==
    /\ arg.op = "_check_mem_expr"
    /\ Returns(CheckMemOperands(arg.operands, arg.opcode))

InitCheckAsm ==
    /\ AtomicIdle
    /\ CFGIdle
    /\ todo = <<>>
    /\ \E d \in Displacements : arg \in CheckArgs(d)

NextCheckAsm == CheckMemExprCall

SpecCheckAsm == InitCheckAsm /\ [][NextCheckAsm]_vars

\* ---- BaseTokenizer.tokenize for strings of one or two instruction lines
\* with instruction prefixes before the opcode, after it, or alone on a line
K_lock == Tok(T_INSTRUCTION_PREFIX, <<"l", "o", "c", "k">>)
K_rep == Tok(T_INSTRUCTION_PREFIX, <<"r", "e", "p">>)
K_pt == Tok(T_BRANCH_PREDICTION, <<"p", "t">>)
K_space == Tok(T_SPACING, <<" ">>)
K_dot == Tok(T_SPACING, <<".">>)
K_comma == Tok(T_SPACING, <<",">>)
K_push == Tok(T_OPCODE, S_push)
K_jmp == Tok(T_OPCODE, S_jmp)
K_rax == Tok(T_REGISTER, S_rax)
K_addr == Tok(T_INSTRUCTION_ADDRESS, <<"0", "x", "1", "0", ":">>)
K_pipe == Tok(T_NEWLINE, <<"|">>)

\* the prefixes written before the opcode, each as a token of its own
LinePrefixes == {<<>>, <<K_lock>>, <<K_lock, K_space, K_rep>>}

\* the tokens made of one opcode string: push, push.rep, jmp,pt, jmp.lock,pt
LineOpcodes ==
    {<<K_push>>, <<K_push, K_dot, K_rep>>, <<K_jmp, K_comma, K_pt>>,
     <<K_jmp, K_dot, K_lock, K_comma, K_pt>>}

LineOperands == {<<>>, <<K_space, K_rax>>}

TokenLines ==
    {(IF q[1] = <<>> THEN <<>> ELSE q[1] \o <<K_space>>) \o q[2] \o q[3] :
        q \in LinePrefixes \X LineOpcodes \X LineOperands}
    \cup (LinePrefixes \ {<<>>})
    \cup {<<K_addr, K_space, K_lock, K_space, K_push>>, <<K_addr, K_space, K_push, K_dot, K_rep>>}

\* the calls for the line l: one string of one line, one string of two lines,
\* two strings of one line
TokenizeArgs(l) ==
    {[op |-> "tokenize", strings |-> ss, newline_tup |-> nl] :
        ss \in {<<l>>}
               \cup {<<l \o <<K_pipe>> \o l2>> : l2 \in TokenLines}
               \cup {<<l, l2>> : l2 \in TokenLines},
        nl \in {DEFAULT_NEWLINE_TUPLE, <<>>}}

TokenizeCall ==
    /\ arg.op = "tokenize"
    /\ Returns(tokenize(arg.strings, arg.newline_tup))

InitTokenize ==
    /\ AtomicIdle
    /\ CFGIdle
    /\ todo = <<>>
    /\ \E l \in TokenLines : arg \in TokenizeArgs(l)

NextTokenize == TokenizeCall

SpecTokenize == InitTokenize /\ [][NextTokenize]_vars

(***************************************************************************)
(* Properties of the compact graph                                         *)
(***************************************************************************)
\* the index MemCFG gives the block at address a: its rank among the addresses
Rank(c, a) == Cardinality({x \in DOMAIN c.blocks_dict : x < a})

\* the indices of the blocks the edges of one type lead to from block a
TargetRanks(c, a, type) ==
    {Rank(c, e.to_block) : e \in {x \in c.blocks_dict[a].edges_out : x.edge_type = type}}

\* s[from + 1 .. from + |S|] lists exactly the set S in ascending order
ListsAscending(s, from, S) ==
    /\ Len(s) >= from + Cardinality(S)
    /\ {s[from + k] : k \in 1..Cardinality(S)} = S
    /\ \A k \in 1..(Cardinality(S) - 1) : s[from + k] < s[from + k + 1]

NeedsSeparator(fc, nm) ==
    Cardinality(fc) >= 2 \/ (Cardinality(fc) = 1 /\ Cardinality(nm) >= 2)

SliceLayout(sl, fc, nm, sentinel) ==
    LET sep == IF NeedsSeparator(fc, nm) THEN 1 ELSE 0
    IN  /\ Len(sl) = Cardinality(fc) + sep + Cardinality(nm)
        /\ ListsAscending(sl, 0, fc)
        /\ sep = 1 => sl[Cardinality(fc) + 1] = sentinel
        /\ ListsAscending(sl, Cardinality(fc) + sep, nm)

\* C1: in a built MemCFG the graph_c slice [graph_r[i], graph_r[i+1]) of
\* every block i holds the indices of its function call targets in ascending
\* order, then exactly one separator equal to the maximum of graph_c's dtype
\* iff the block has two or more function call edges or exactly one function
\* call edge and two or more normal edges, then the indices of its normal
\* targets in ascending order.
C1_GraphCLayout ==
    memcfg # NoMemCFG =>
        \A a \in DOMAIN ncfg.blocks_dict :
            SliceLayout(GraphCSlice(memcfg, Rank(ncfg, a)),
                        TargetRanks(ncfg, a, FUNCTION_CALL),
                        TargetRanks(ncfg, a, NORMAL),
                        DtypeMax(memcfg.graph_c_dtype))

\* a MemCFG was built from a CFG with a block that has two calls and one
\* normal edge: its slice is two targets, the separator, one target
C1_Witness ==
    /\ memcfg # NoMemCFG
    /\ \E a \in DOMAIN ncfg.blocks_dict :
        /\ Cardinality(TargetRanks(ncfg, a, FUNCTION_CALL)) = 2
        /\ Cardinality(TargetRanks(ncfg, a, NORMAL)) = 1
        /\ Len(GraphCSlice(memcfg, Rank(ncfg, a))) = 4
        /\ GraphCSlice(memcfg, Rank(ncfg, a))[3] = DtypeMax(memcfg.graph_c_dtype)

EdgesOutAgree(out, fc, nm, sentinel) ==
    /\ out.error = ""
    /\ Len(out.edges) = Cardinality(fc) + Cardinality(nm)
    /\ Len(out.types) = Len(out.edges)
    /\ ListsAscending(out.edges, 0, fc)
    /\ ListsAscending(out.edges, Cardinality(fc), nm)
    /\ \A k \in DOMAIN out.edges : out.edges[k] # sentinel
    /\ \A k \in DOMAIN out.types :
        out.types[k] = IF k <= Cardinality(fc) THEN FUNCTION_CALL_EDGE_CONN_VALUE
                       ELSE NORMAL_EDGE_CONN_VALUE

\* C2: get_block_edges_out(b, ret_edge_types=True) returns exactly the real
\* targets of block b, never the separator, the function call targets first,
\* with as many function-call and normal edge types as the block has edges of
\* each type: for blocks without calls, with a call and no separator, and
\* with a separator.
C2_EdgesOutRecovered ==
    ret.op = "get_block_edges_out" =>
        EdgesOutAgree(ret.out,
                      TargetRanks(ncfg, blocks(ncfg)[ret.block + 1], FUNCTION_CALL),
                      TargetRanks(ncfg, blocks(ncfg)[ret.block + 1], NORMAL),
                      DtypeMax(memcfg.graph_c_dtype))

\* the edges of a block with one call and two normal edges were read back
C2_Witness ==
    /\ ret.op = "get_block_edges_out"
    /\ Cardinality(TargetRanks(ncfg, blocks(ncfg)[ret.block + 1], FUNCTION_CALL)) = 1
    /\ Cardinality(TargetRanks(ncfg, blocks(ncfg)[ret.block + 1], NORMAL)) = 2
    /\ Len(ret.out.edges) = 3

(***************************************************************************)
(* Properties of the token dictionary and the stored values                *)
(***************************************************************************)
\* the normalized tokens of a CFG: blocks by ascending address, the
\* instructions of a block in order, the tokens of an instruction in order
RECURSIVE TokensInOrder(_, _)
TokensInOrder(c, addrs) ==
    IF addrs = {} THEN <<>>
    ELSE LET a == CHOOSE x \in addrs : \A y \in addrs : x <= y
         IN  Flatten([i \in DOMAIN c.blocks_dict[a].asm_lines |-> c.blocks_dict[a].asm_lines[i].val])
             \o TokensInOrder(c, addrs \ {a})

\* the tokens of seq that are not in the set known, each once, in order of
\* first appearance
RECURSIVE FirstSeen(_, _)
FirstSeen(seq, known) ==
    IF seq = <<>> THEN <<>>
    ELSE IF Head(seq) \in known THEN FirstSeen(Tail(seq), known)
    ELSE <<Head(seq)>> \o FirstSeen(Tail(seq), known \cup {Head(seq)})

AllBelow(arr, w) == \A i \in DOMAIN arr : arr[i] < DtypeMax(w)

\* C3: in every MemCFG built from any CFG with any using_tokens dictionary,
\* every real value stored in asm_lines, block_asm_idx, block_func_idx,
\* block_flags, graph_c and graph_r is strictly below the maximum of the
\* array's dtype and is stored unchanged (a stored token id is the id the
\* dictionary gives the token); no block index equals the separator.
C3_DtypeSufficiency ==
    memcfg # NoMemCFG =>
        /\ AllBelow(memcfg.asm_lines, memcfg.asm_lines_dtype)
        /\ \A i \in DOMAIN memcfg.asm_lines :
                memcfg.asm_lines[i] = tokens[TokensInOrder(ncfg, DOMAIN ncfg.blocks_dict)[i]]
        /\ AllBelow(memcfg.block_asm_idx, memcfg.block_asm_idx_dtype)
        /\ AllBelow(memcfg.block_func_idx, memcfg.block_func_idx_dtype)
        /\ AllBelow(memcfg.block_flags, memcfg.block_flags_dtype)
        /\ AllBelow(memcfg.graph_r, memcfg.graph_r_dtype)
        /\ \A a \in DOMAIN ncfg.blocks_dict : Rank(ncfg, a) < DtypeMax(memcfg.graph_c_dtype)

AppendOnly(old, new, seq) ==
    /\ \A t \in DOMAIN old : t \in DOMAIN new /\ new[t] = old[t]
    /\ DOMAIN new = DOMAIN old \cup Range(seq)
    /\ \A j \in DOMAIN FirstSeen(seq, DOMAIN old) :
            new[FirstSeen(seq, DOMAIN old)[j]] = Cardinality(DOMAIN old) + j - 1

\* C7: a MemCFG construction with a supplied token dictionary only appends
\* to it: every entry present before keeps its id, and each token seen for
\* the first time (blocks by ascending address, instructions and their
\* tokens in order) gets the number of entries the dictionary holds at that
\* moment as its id; this holds for every construction of a sequence that
\* shares the dictionary.
C7_AppendOnly ==
    [][ncompact' = ncompact + 1 =>
            AppendOnly(tokens, tokens', TokensInOrder(ncfg, DOMAIN ncfg.blocks_dict))]_vars

\* a later construction of a sequence found entries of an earlier one in the
\* dictionary and numbered a token of its own CFG last
C7_Witness ==
    /\ ncompact = MaxCompactions
    /\ memcfg # NoMemCFG
    /\ \E t \in DOMAIN tokens : t \notin Range(TokensInOrder(ncfg, DOMAIN ncfg.blocks_dict))
    /\ \E u \in Range(TokensInOrder(ncfg, DOMAIN ncfg.blocks_dict)) :
            /\ tokens[u] = Cardinality(DOMAIN tokens) - 1
            /\ tokens[u] >= 3

\* the return-instruction pattern applied to the last instruction of the
\* block at address a as the disassembler printed it
LastInstructionReturns(c, a) ==
    /\ Len(c.blocks_dict[a].asm_lines) > 0
    /\ RE_RETURN_INSTRUCTION(RawText(c.blocks_dict[a].asm_lines[Len(c.blocks_dict[a].asm_lines)].val))

EmptyInZeroBlockExtern(c, a) ==
    /\ Len(c.blocks_dict[a].asm_lines) = 0
    /\ c.functions_dict[c.blocks_dict[a].parent_function].is_extern_function
    /\ Len(c.functions_dict[c.blocks_dict[a].parent_function].blocks) = 0

\* C10: for every block of a normalized CFG, at the opcode level and at the
\* instruction level, the MemCFG has the is-function-return flag set iff the
\* block's last instruction matches the return pattern, or the block is
\* empty and belongs to an extern function without blocks.
C10_ReturnFlag ==
    memcfg # NoMemCFG =>
        \A a \in DOMAIN cfg.blocks_dict :
            is_block_function_return(memcfg, Rank(cfg, a))
                <=> (LastInstructionReturns(cfg, a) \/ EmptyInZeroBlockExtern(cfg, a))

(***************************************************************************)
(* Properties of the function call classification                          *)
(***************************************************************************)
\* a raw instruction 'call <immediate>'
IsDirectCall(toks) ==
    /\ Len(toks) = 3
    /\ toks[1].name = T_OPCODE /\ toks[1].tok = S_call
    /\ toks[3].name = T_IMMEDIATE

\* the operand of an instruction-level 'call_<operand>' token of SafeNormalizer
CallOperand(s) == SubSeq(s, Len(S_call) + 2, Len(s))

NumEdges(c, a, type) == Cardinality({e \in c.blocks_dict[a].edges_out : e.edge_type = type})

\* the condition under which the compactor marks a block is-multi-function-call
IsMultiCondition(c, a) ==
    NumEdges(c, a, FUNCTION_CALL) > 1
        \/ (NumEdges(c, a, FUNCTION_CALL) = 1 /\ NumEdges(c, a, NORMAL) > 1)

\* the direct calls of the CFG normalized with the CFG as context: P(a, i, operand)
\* holds for instruction i of the block at address a
ForDirectCallsCFG(P(_, _, _)) ==
    ncfg # NoCFG =>
        \A a \in DOMAIN cfg.blocks_dict :
            \A i \in DOMAIN cfg.blocks_dict[a].asm_lines :
                IsDirectCall(cfg.blocks_dict[a].asm_lines[i].val)
                    => P(a, i, CallOperand(ncfg.blocks_dict[a].asm_lines[i].val[1]))

\* the same for the block whose instructions were normalized with the MemCFG as context
ForDirectCallsMemCFG(P(_, _, _)) ==
    ret.op = "normalize" =>
        \A i \in DOMAIN ret.out :
            IsDirectCall(cfg.blocks_dict[blocks(cfg)[ret.block + 1]].asm_lines[i].val)
                => P(blocks(cfg)[ret.block + 1], i, CallOperand(ret.out[i][1]))

MultiIffIsMulti(a, i, operand) == (operand = MULTI_FUNCTION_CALL_STR) <=> IsMultiCondition(cfg, a)

\* C8 as stated: with a CFG or a MemCFG as context, the operand of a call is
\* classified multifunc iff the calling block has more than one function call
\* edge, or one function call edge and more than one normal edge.
C8_MultiIffIsMultiFunctionCall ==
    ForDirectCallsCFG(MultiIffIsMulti) /\ ForDirectCallsMemCFG(MultiIffIsMulti)

MultiIffManyCalls(a, i, operand) ==
    (operand = MULTI_FUNCTION_CALL_STR) <=> NumEdges(cfg, a, FUNCTION_CALL) > 1

\* C8 amended: with a CFG or a MemCFG as context, the operand of a call is
\* classified multifunc iff the calling block has more than one outgoing
\* function call edge; the number of its normal edges plays no part.
C8_MultiIffManyCalls ==
    ForDirectCallsCFG(MultiIffManyCalls) /\ ForDirectCallsMemCFG(MultiIffManyCalls)

\* a block with one call and two normal edges, which the compactor marks
\* is-multi-function-call, had its call classified with the MemCFG as
\* context, and not as multifunc
C8_Witness ==
    /\ ret.op = "normalize"
    /\ is_block_multi_function_call(memcfg, ret.block)
    /\ NumEdges(cfg, blocks(cfg)[ret.block + 1], FUNCTION_CALL) = 1
    /\ NumEdges(cfg, blocks(cfg)[ret.block + 1], NORMAL) = 2
    /\ IsDirectCall(cfg.blocks_dict[blocks(cfg)[ret.block + 1]].asm_lines[1].val)
    /\ CallOperand(ret.out[1][1]) # MULTI_FUNCTION_CALL_STR
    /\ CallOperand(ncfg.blocks_dict[blocks(cfg)[ret.block + 1]].asm_lines[1].val[1])
            # MULTI_FUNCTION_CALL_STR

\* the block the immediate of the call at instruction i of block a names
\* belongs to the function of block a
CallsOwnFunction(a, i) ==
    /\ imm_to_int(cfg.blocks_dict[a].asm_lines[i].val[3].tok) \in DOMAIN cfg.blocks_dict
    /\ cfg.blocks_dict[imm_to_int(cfg.blocks_dict[a].asm_lines[i].val[3].tok)].parent_function
            = cfg.blocks_dict[a].parent_function

SelfIfOwnFunction(a, i, operand) ==
    CallsOwnFunction(a, i) => operand = RECURSIVE_FUNCTION_CALL_STR

\* C9 as stated: SafeNormalizer turns the operand of a call whose immediate
\* names a block of the calling block's own function into 'self'.
C9_SelfCall == ForDirectCallsCFG(SelfIfOwnFunction)

SelfIfOnlyCall(a, i, operand) ==
    CallsOwnFunction(a, i) =>
        operand = IF NumEdges(cfg, a, FUNCTION_CALL) = 1 THEN RECURSIVE_FUNCTION_CALL_STR
                  ELSE MULTI_FUNCTION_CALL_STR

\* C9 amended: SafeNormalizer turns the operand of a call whose immediate
\* names a block of the calling block's own function into 'self' when that
\* call is the block's only outgoing function call edge; when the block has
\* more function call edges the operand becomes 'multifunc' instead.
C9_SelfCallWhenOnlyCall == ForDirectCallsCFG(SelfIfOnlyCall) /\ ForDirectCallsMemCFG(SelfIfOnlyCall)

\* a block of an extern function whose only call goes to a block of the same
\* function was normalized, and the operand is 'self'
C9_Witness ==
    /\ ncfg # NoCFG
    /\ \E a \in DOMAIN cfg.blocks_dict :
        /\ NumEdges(cfg, a, FUNCTION_CALL) = 1
        /\ cfg.functions_dict[cfg.blocks_dict[a].parent_function].is_extern_function
        /\ IsDirectCall(cfg.blocks_dict[a].asm_lines[1].val)
        /\ CallsOwnFunction(a, 1)
        /\ CallOperand(ncfg.blocks_dict[a].asm_lines[1].val[1]) = RECURSIVE_FUNCTION_CALL_STR

(***************************************************************************)
(* Properties of the atomic token dictionary                               *)
(***************************************************************************)
\* every <<token, id>> the file or a view holds now or has held before
EverAssigned == assigned \cup Pairs(file_data) \cup UNION {Pairs(data[w]) : w \in Workers}

\* C4: under any interleaving of workers inserting tokens into one shared
\* AtomicTokenDict (setdefault, addtokens, update, item assignment), a token
\* string is never assigned two different ids: once the persisted dictionary
\* or a worker's view maps a string to an id, no later persisted state and
\* no view maps it to another id.
C4_OneIdPerToken ==
    \A p, q \in EverAssigned : p[1] = q[1] => p[2] = q[2]

\* starting from an empty file, two tokens were inserted by two separate
\* calls; the worker that made the second has just merged its token on top
\* of the first, and the other worker's view is one token behind the file
C4_Witness ==
    \E w1, w2 \in Workers :
        /\ w1 # w2
        /\ op[w2] = "atomic_update" /\ pc[w2] = "exit"
        /\ data[w2] = file_data
        /\ Cardinality(DOMAIN file_data) = 2
        /\ S_ret \notin DOMAIN file_data
        /\ Cardinality(DOMAIN data[w1]) = 1
        /\ \A t \in DOMAIN data[w1] : t \in DOMAIN file_data /\ file_data[t] = data[w1][t]

Injective(d) == \A s, t \in DOMAIN d : d[s] = d[t] => s = t

\* C5: under any interleaving of workers inserting into the shared token
\* dictionary, a newly added token gets an id that is not in use: neither
\* the persisted dictionary nor a worker's view maps two different token
\* strings to the same id.
C5_UniqueIds ==
    /\ Injective(file_data)
    /\ \A w \in Workers : Injective(data[w])

\* the worker is inside a section of AtomicData that the lock protects
InSection(w) == pc[w] \in {"body", "write", "exit"} \/ lock[w]

\* C6: at most one worker at a time is inside a lock-protected section of
\* AtomicData (atomic_read, atomic_write, atomic_update, delete_file, or
\* after aquire_lock), the lock file exists while one is, and between a
\* worker's read of the file and its write-back in atomic_update the file
\* is still what the worker read.
C6_MutualExclusion ==
    /\ Cardinality({w \in Workers : InSection(w)}) <= 1
    /\ (\E w \in Workers : InSection(w)) => lock_exists
    /\ \A w \in Workers : pc[w] = "write" => file_exists /\ file_data = file_tokens[w]

\* two workers are in atomic_update: one is between its read of the file and
\* its write-back, the other polls for the lock
C6_Witness ==
    \E w1, w2 \in Workers :
        /\ w1 # w2
        /\ op[w1] = "atomic_update" /\ pc[w1] = "write"
        /\ op[w2] = "atomic_update" /\ pc[w2] = "enter"
        /\ lock_exists

(***************************************************************************)
(* Properties of the constructed CFG                                       *)
(***************************************************************************)
Built == cfg # NoCFG

\* the number of blocks of function f that have the address of the function
NumEntryBlocks(f) ==
    Cardinality({i \in DOMAIN f.blocks : f.blocks[i] = f.address})

\* C11: after the construction of a CFG, padding nodes pruned, every function
\* that owns at least one block has exactly one block whose address is the
\* address of the function
C11_EntryBlock ==
    Built => \A a \in DOMAIN cfg.functions_dict :
                cfg.functions_dict[a].blocks # <<>>
                    => NumEntryBlocks(cfg.functions_dict[a]) = 1

\* the edges the blocks of the CFG hold
HeldOut == UNION {cfg.blocks_dict[a].edges_out : a \in DOMAIN cfg.blocks_dict}
HeldIn == UNION {cfg.blocks_dict[a].edges_in : a \in DOMAIN cfg.blocks_dict}

InEdgesOut(e) ==
    e.from_block \in DOMAIN cfg.blocks_dict /\ e \in cfg.blocks_dict[e.from_block].edges_out
InEdgesIn(e) ==
    e.to_block \in DOMAIN cfg.blocks_dict /\ e \in cfg.blocks_dict[e.to_block].edges_in

OwnersOf(a) ==
    {f \in DOMAIN cfg.functions_dict :
        \E i \in DOMAIN cfg.functions_dict[f].blocks : cfg.functions_dict[f].blocks[i] = a}

IndexArray(idx, n, last) ==
    /\ Len(idx) = n + 1
    /\ idx[1] = 0
    /\ \A i \in 1..n : idx[i] <= idx[i + 1]
    /\ idx[n + 1] = last

\* C14: in a built MemCFG block_asm_idx and graph_r each have num_blocks + 1
\* entries, start at 0, never decrease, and end at the length of asm_lines
\* and of graph_c
C14_IndexArrays ==
    memcfg # NoMemCFG =>
        /\ IndexArray(memcfg.block_asm_idx, num_blocks(ncfg), Len(memcfg.asm_lines))
        /\ IndexArray(memcfg.graph_r, num_blocks(ncfg), Len(memcfg.graph_c))

\* a MemCFG was built from a CFG in which a block has no edge out, another
\* has several, and the blocks hold different numbers of instructions
C14_Witness ==
    /\ memcfg # NoMemCFG
    /\ \E i, j \in 1..num_blocks(ncfg) :
        /\ memcfg.graph_r[i + 1] = memcfg.graph_r[i]
        /\ memcfg.graph_r[j + 1] > memcfg.graph_r[j] + 1
        /\ memcfg.block_asm_idx[i + 1] - memcfg.block_asm_idx[i]
            # memcfg.block_asm_idx[j + 1] - memcfg.block_asm_idx[j]

(***************************************************************************)
(* Properties of normalize                                                 *)
(***************************************************************************)
\* the brackets of the token stream toks are mismatched: a bracket opens
\* while one is open, closes while none is open, or is open at a newline, an
\* instruction start or the end
RECURSIVE Mismatched(_, _)
Mismatched(toks, open) ==
    IF toks = <<>> THEN open
    ELSE IF Head(toks).name = T_OPEN_BRACKET THEN open \/ Mismatched(Tail(toks), TRUE)
    ELSE IF Head(toks).name = T_CLOSE_BRACKET THEN ~open \/ Mismatched(Tail(toks), FALSE)
    ELSE IF Head(toks).name \in {T_NEWLINE, T_INSTRUCTION_START}
    THEN open \/ Mismatched(Tail(toks), FALSE)
    ELSE Mismatched(Tail(toks), open)

\* the token stream of the call arg
StreamOf(a) == tokenize(a.strings, NewlineTupFor(a.strings, a.newline_tup))

\* C15: normalize fails with MalformedMemoryExpressionError for every token
\* stream with mismatched brackets, and returns no instruction of it
C15_MismatchedBracketsFail ==
    (ret # NoRet /\ ret.op = "normalize" /\ Mismatched(StreamOf(arg), FALSE))
        => (ret.out.error = "MalformedMemoryExpressionError" /\ ret.out.sentence = <<>>)

(***************************************************************************)
(* Properties of normalize_cfg_data                                        *)
(***************************************************************************)
\* the asm lines new hold the instructions of old, each at its address
SameInstructions(old, new) ==
    /\ Len(new) = Len(old)
    /\ \A i \in DOMAIN old : new[i].addr = old[i].addr

\* C16: the normalized CFG has the functions, blocks and edges of the CFG
\* that was normalized, every block its address, its function, as many
\* instructions and the address of each; only the contents of the asm lines
\* and the normalizer differ
C16_OnlyAsmLinesChange ==
    ncfg # NoCFG =>
        /\ ncfg.functions_dict = cfg.functions_dict
        /\ DOMAIN ncfg.blocks_dict = DOMAIN cfg.blocks_dict
        /\ \A a \in DOMAIN cfg.blocks_dict :
            /\ [ncfg.blocks_dict[a] EXCEPT !.asm_lines = cfg.blocks_dict[a].asm_lines]
                    = cfg.blocks_dict[a]
            /\ SameInstructions(cfg.blocks_dict[a].asm_lines, ncfg.blocks_dict[a].asm_lines)

\* a CFG was normalized in which a block of several instructions has edges
\* out, and the contents of its instructions changed
C16_Witness ==
    /\ ncfg # NoCFG
    /\ ncfg.normalizer # cfg.normalizer
    /\ \E a \in DOMAIN cfg.blocks_dict :
        /\ Len(cfg.blocks_dict[a].asm_lines) > 1
        /\ cfg.blocks_dict[a].edges_out # {}
        /\ \A i \in DOMAIN cfg.blocks_dict[a].asm_lines :
                ncfg.blocks_dict[a].asm_lines[i].val # cfg.blocks_dict[a].asm_lines[i].val

(***************************************************************************)
(* Properties of the compressed statistics                                 *)
(***************************************************************************)
HasStats == ret # NoRet /\ ret.op = "get_compressed_stats" /\ ret.out.error = ""

\* the counts of histogram h add up to total
Conserved(h, total) == h.total = total /\ SumSeq(h.counts) = total

\* C17: in the statistics of a CFG the counts of each histogram add up to
\* its denominator: the number of blocks for the degrees of normal edges in
\* and out and for the block sizes, the number of functions for the function
\* degrees and the function sizes, the number of tokens for the token shares
C17_HistogramsConserve ==
    HasStats =>
        /\ ret.out.degree.total = num_blocks(ncfg)
        /\ SumSeq(SubSeq(ret.out.degree.counts, 1, 4)) = num_blocks(ncfg)
        /\ SumSeq(SubSeq(ret.out.degree.counts, 5, 8)) = num_blocks(ncfg)
        /\ Conserved(ret.out.node_size, num_blocks(ncfg))
        /\ Conserved(ret.out.function_degree, Cardinality(DOMAIN ncfg.functions_dict))
        /\ Conserved(ret.out.function_size, Cardinality(DOMAIN ncfg.functions_dict))
        /\ Conserved(ret.out.asm, Len(CFGTokens(ncfg)))

\* the statistics of a CFG of two functions were taken in which blocks have
\* different numbers of normal edges and of instructions, with a dictionary
\* that held a token of no block
C17_Witness ==
    /\ HasStats
    /\ Cardinality(DOMAIN ncfg.functions_dict) = 2
    /\ Cardinality({i \in 1..8 : ret.out.degree.counts[i] > 0}) > 3
    /\ Cardinality({i \in DOMAIN ret.out.node_size.counts : ret.out.node_size.counts[i] > 0}) > 1
    /\ \E i \in DOMAIN ret.out.asm.counts : ret.out.asm.counts[i] = 0
    /\ \E i \in DOMAIN ret.out.function_degree.counts :
            i > 1 /\ ret.out.function_degree.counts[i] > 0

CheckedMem == (CHOOSE i \in DOMAIN arg.operands : arg.operands[i].ot = "m")
CheckedDisp == imm_to_wide(arg.disp)

\* -2^31 <= D <= 2^31 - 1
InSigned32(D) == ~BelowMinusPow2(D, 31) /\ ~AtLeastPow2(D, 31)

\* -2^63 <= D <= 2^64 - 1: D fits in 64 bits, read as signed or as unsigned
In64(D) == ~BelowMinusPow2(D, 63) /\ ~AtLeastPow2(D, 64)

\* the opcode is mov or movabs, there are exactly two operands and the
\* other operand is a part of the a register
WideDisplacementAllowed ==
    /\ arg.opcode \in {S_mov, S_movabs}
    /\ Len(arg.operands) = 2
    /\ \E i \in DOMAIN arg.operands :
            arg.operands[i].ot = "r" /\ arg.operands[i].toks[1].tok \in {S_rax, S_eax, S_ax, S_al}

\* the registers and the scale of the checked memory operand are valid
RestValid ==
    \A i \in DOMAIN arg.operands[CheckedMem].toks :
        LET t == arg.operands[CheckedMem].toks[i]
        IN  /\ t.name = T_REGISTER => t.tok \in {S_rbx, S_rip}
            /\ (t.name = T_IMMEDIATE /\ t.tok # arg.disp) => t.tok = <<"0", "x", "4">>

\* C19: a memory expression is accepted only if its displacement D fits in
\* 32 bits signed, -2^31 <= D <= 2^31 - 1, or the opcode is mov/movabs with
\* exactly two operands of which the other is a part of the a register and D
\* fits in 64 bits; and a displacement that fits in 32 bits signed is not
\* rejected
C19_DisplacementWidth ==
    (ret # NoRet /\ ret.op = "_check_mem_expr") =>
        /\ ret.out = "" =>
            \/ InSigned32(CheckedDisp)
            \/ WideDisplacementAllowed /\ In64(CheckedDisp)
        /\ (RestValid /\ InSigned32(CheckedDisp)) => ret.out = ""

(***************************************************************************)
(* Properties of the tokenizer                                             *)
(***************************************************************************)
\* the tokens of the strings before they are reorganized
PreReorder(strings, newline_tup) ==
    Flatten([i \in DOMAIN strings |-> strings[i] \o newline_tup])

Count(toks, t) == Cardinality({i \in DOMAIN toks : toks[i] = t})
NamesOf(toks) == [i \in DOMAIN toks |-> toks[i].name]
NotSpacing(t) == t.name # T_SPACING
IsPrefixToken(t) == t.name = T_INSTRUCTION_PREFIX
IsSignificant(t) == t.name \notin {T_SPACING, T_NEWLINE}
Significant(toks) == SelectSeq(toks, IsSignificant)

\* the lines of toks: the tokens, spacing left out, up to each newline token
\* and those after the last one
LinesOf(toks) ==
    LET ends == {0} \cup {i \in DOMAIN toks : toks[i].name = T_NEWLINE} \cup {Len(toks) + 1}
    IN  {SelectSeq(SubSeq(toks, q[1] + 1, q[2] - 1), NotSpacing) :
            q \in {r \in ends \X ends :
                    r[1] < r[2] /\ \A e \in ends : ~(r[1] < e /\ e < r[2])}}

\* [addr] prefix* branch? opcode operand*
Canonical(line) ==
    \E k \in DOMAIN line :
        /\ line[k].name = T_OPCODE
        /\ \A i \in 1..(k - 1) :
            /\ line[i].name \in {T_INSTRUCTION_ADDRESS, T_INSTRUCTION_PREFIX, T_BRANCH_PREDICTION}
            /\ line[i].name = T_INSTRUCTION_ADDRESS => i = 1
            /\ line[i].name = T_BRANCH_PREDICTION => i = k - 1
        /\ \A i \in (k + 1)..Len(line) :
            line[i].name \notin {T_INSTRUCTION_ADDRESS, T_INSTRUCTION_PREFIX,
                                 T_BRANCH_PREDICTION, T_OPCODE}

\* the line holds instruction prefixes and nothing else
PrefixOnly(line) == line # <<>> /\ \A i \in DOMAIN line : IsPrefixToken(line[i])

\* the newline tokens of toks that end a line of prefixes only
MergedNewlines(toks) ==
    {i \in DOMAIN toks :
        /\ toks[i].name = T_NEWLINE
        /\ \E j \in 0..(i - 1) :
            /\ j = 0 \/ toks[j].name = T_NEWLINE
            /\ \A m \in (j + 1)..(i - 1) : toks[m].name # T_NEWLINE
            /\ PrefixOnly(SelectSeq(SubSeq(toks, j + 1, i - 1), NotSpacing))}

\* the statement of C20 for the tokens pre of the strings and the tokens out
\* returned for them; a line of prefixes only may end the tokens returned
\* if it ends the strings
Reordered(pre, out) ==
    /\ \A i \in DOMAIN pre : pre[i].name # T_NEWLINE => Count(out, pre[i]) >= Count(pre, pre[i])
    /\ SelectSeq(out, IsPrefixToken) = SelectSeq(pre, IsPrefixToken)
    /\ \A line \in LinesOf(out) : line = <<>> \/ Canonical(line) \/ PrefixOnly(line)
    /\ Cardinality({i \in DOMAIN out : out[i].name = T_NEWLINE})
            = Cardinality({i \in DOMAIN pre : pre[i].name = T_NEWLINE})
              - Cardinality(MergedNewlines(pre))
    /\ (\E line \in LinesOf(out) : PrefixOnly(line)) =>
            (Significant(pre) # <<>> /\ IsPrefixToken(Significant(pre)[Len(Significant(pre))]))

\* C20: for strings with or without a newline token after them, the tokens
\* returned hold every token of the strings, each line of them is in the
\* order [addr] prefix* branch? opcode operand* with the prefixes in their
\* original order, and a line of prefixes only is merged into the next line
\* (two strings that no newline token separates are not two lines and are
\* left out)
C20_CanonicalOrder ==
    (ret # NoRet /\ ret.op = "tokenize" /\ (Len(arg.strings) = 1 \/ arg.newline_tup # <<>>)) =>
        Reordered(PreReorder(arg.strings, arg.newline_tup), ret.out)

(***************************************************************************)
(* Properties of the MemCFG constructor                                    *)
(***************************************************************************)
\* a MemCFG was just constructed from the CFG as parsed without a normalizer
CompactedRaw ==
    /\ ret # NoRet
    /\ ret.op = "MemCFG"
    /\ ret.src = "cfg"
    /\ ret.normalizer = NoNormalizer

C22_ReleaseLockFrees ==
    [][\A w \in Workers :
            (lock[w] /\ release_lock(w)) =>
                (raised'[w] = "" /\ ~lock'[w] /\ ~lock_exists')]_vars

\* a call of atomic_read, atomic_write, atomic_update or delete_file of the
\* worker has ended with an exception
CallRaised(w) ==
    /\ pc[w] = "idle"
    /\ ~lock[w]
    /\ raised[w] \in {"FileNotFoundError", "UpdateFuncError"}

\* C23: when atomic_read, atomic_write, atomic_update or delete_file has
\* exited, normally or with an exception of update_func or of the file
\* input, the lock the call acquired is released: the lock file exists only
\* while some worker is inside a protected section, and never on behalf of
\* a worker whose call has ended
C23_LockReleasedOnExit ==
    /\ lock_exists => \E w \in Workers : InSection(w)
    /\ \A w \in Workers :
            (pc[w] = "idle" /\ ~lock[w] /\ lock_exists) =>
                \E v \in Workers \ {w} : InSection(v)

\* the call of one worker has ended with an exception and another worker is
\* under the lock after it
C23_Witness ==
    \E w, v \in Workers :
        /\ w # v
        /\ CallRaised(w)
        /\ raised[w] = "UpdateFuncError"
        /\ pc[v] = "body"
        /\ lock_exists

\* C30 as stated: if every worker that gets the lock releases it, every
\* worker that starts to acquire the lock gets it; no worker polls forever
\* while other workers acquire and release the lock again and again
C30_NoStarvation ==
    (\A w \in Workers : []<>(~InSection(w))) =>
        (\A w \in Workers : (pc[w] = "enter") ~> (pc[w] # "enter"))

\* C30: while a worker polls for the lock, the lock does not stay free: some
\* worker gets it; a worker polls forever only if the lock is taken again
\* and again, or is never released
C30_PollsOnlyWhileTaken ==
    /\ (\E w \in Workers : pc[w] = "enter") ~> lock_exists
    /\ \A w \in Workers : (<>[](pc[w] = "enter")) => []<>lock_exists

\* a worker polls for the lock in atomic_write while another worker, which
\* has written before, is under the lock again
C30_Witness ==
    \E w, v \in Workers :
        /\ w # v
        /\ op[w] = "atomic_write" /\ pc[w] = "enter"
        /\ op[v] = "atomic_write" /\ pc[v] = "body"
        /\ file_exists /\ file_data = data[v]

(***************************************************************************)
(* Properties of the edge arrays read from a MemCFG                        *)
(***************************************************************************)
\* the type get_block_edges_out gives the edge at position j of the graph_c
\* slice of block b: the separator is left out of what it returns
TypeInSlice(mem, b, j) ==
    LET s == GraphCSlice(mem, b)
        real == {i \in 1..j : s[i] # DtypeMax(mem.graph_c_dtype)}
    IN  get_block_edges_out(mem, b).types[Cardinality(real)]

\* C24: get_edge_values() returns an array of length num_edges whose
\* position k holds the type, 1 normal and 2 function call, of the edge at
\* position k of graph_c, the type get_block_edges_out(b, ret_edge_types=True)
\* gives that edge, for every block b whatever its numbers of edges
C24_EdgeValuesAgree ==
    (ret # NoRet /\ ret.op = "get_edge_values") =>
        /\ ret.error = ""
        /\ Len(ret.out) = num_edges(memcfg)
        /\ \A b \in 0..(mem_num_blocks(memcfg) - 1) :
            \A j \in DOMAIN GraphCSlice(memcfg, b) :
                GraphCSlice(memcfg, b)[j] # DtypeMax(memcfg.graph_c_dtype) =>
                    ret.out[memcfg.graph_r[b + 1] + j] = TypeInSlice(memcfg, b, j)

\* the edges of the CFG from the block of index b to the block of index t
EdgesBetween(c, b, t) ==
    {e \in c.blocks_dict[blocks(c)[b + 1]].edges_out : Rank(c, e.to_block) = t}

\* C25: get_coo_indices() returns exactly one row <<b, t>> for every real
\* outgoing edge from block b to block t, t a block index in
\* 0..num_blocks-1, and num_edges is the number of real edges of the graph
C25_CooRowsAreEdges ==
    (ret # NoRet /\ ret.op = "get_coo_indices") =>
        LET n == mem_num_blocks(memcfg)
        IN  /\ Len(ret.out) = num_edges(memcfg)
            /\ \A k \in DOMAIN ret.out : ret.out[k][2] \in 0..(n - 1)
            /\ \A b \in 0..(n - 1), t \in 0..(n - 1) :
                    Cardinality({k \in DOMAIN ret.out : ret.out[k] = <<b, t>>})
                        = Cardinality(EdgesBetween(ncfg, b, t))

(***************************************************************************)
(* Properties of update_memcfg_tokens                                      *)
(***************************************************************************)
\* the token string that the dictionary d gives the id v
Decode(d, v) == CHOOSE t \in DOMAIN d : d[t] = v

\* C26: after update_memcfg_tokens(memcfg, tokens) with a dictionary that is
\* not the MemCFG's own, the dictionary of the MemCFG maps the token string
\* that was at position i before the call to the id now in asm_lines[i],
\* for every position i: decoding the MemCFG gives the token strings it gave
\* before
C26_TokensFollowAsmLines ==
    (ret # NoRet /\ ret.op = "update_memcfg_tokens" /\ ret.error = "") =>
        \A i \in DOMAIN memcfg.asm_lines :
            LET t == Decode(ret.old_tokens, ret.old_asm_lines[i])
            IN  t \in DOMAIN tokens /\ tokens[t] = memcfg.asm_lines[i]

(***************************************************************************)
(* Properties of the statistics with an atomic token dictionary            *)
(***************************************************************************)
\* C27: get_compressed_stats with an AtomicTokenDict does what it does with
\* a plain dict of the same contents: the call completes, every token of the
\* CFG that the dictionary lacks is added as an entry of its own with a
\* fresh id, and the statistics returned are the same
C27_AtomicAsPlain ==
    (ret # NoRet /\ ret.op = "get_compressed_stats_atomic") =>
        /\ ret.out.error = ""
        /\ ret.out = ret.plain
        /\ Range(AsmItems(ncfg)) \subseteq DOMAIN tokens
        /\ Injective(tokens)

(***************************************************************************)
(* Properties of the ids in the atomic token dictionary                    *)
(***************************************************************************)
\* C28: when d[k] = v, d.update({k: v, ...}) or d.setdefault(k, v) on an
\* AtomicTokenDict returns without raising, k maps to the given v in the
\* view of the worker and in the file, for every pair given, also when other
\* workers have inserted since the worker read the file: the write-back of
\* the call leaves every pair of update_tokens in both
C28_GivenValueKept ==
    [][\A w \in Workers :
            LockedWrite(w) =>
                \A i \in DOMAIN update_tokens[w] :
                    /\ data'[w][update_tokens[w][i][1]] = update_tokens[w][i][2]
                    /\ file_data'[update_tokens[w][i][1]] = update_tokens[w][i][2]]_vars

Dense(d) == Range(d) = 0..(Cardinality(DOMAIN d) - 1)

====
